---- MODULE Spec2Model ----
(***************************************************************************)
(* A model of the file ranking tool (src/file_rank_simple.py): the         *)
(* dependency detector, the ranking/dependency store of FileRankManager,   *)
(* the dependency tree of visualize_dependencies, process_command and the  *)
(* command loop of main(); and of the group store of DataManager           *)
(* (src/file_rank_mcp.py).                                                 *)
(*                                                                         *)
(* Strings (paths, import tokens) are sequences of one-character strings,  *)
(* so that basename, splitext, split('.'), endswith and path joining are   *)
(* computed the way the Python code computes them.                         *)
(***************************************************************************)
EXTENDS Integers, Sequences, FiniteSets, TLC

(***************************************************************************)
(* String primitives (Python str methods used by the code)                 *)
(***************************************************************************)

\* Python's None, where a string or a list is expected
None == <<"None">>

\* str.startswith(pre)
StartsWith(s, pre) ==
    /\ Len(pre) <= Len(s)
    /\ SubSeq(s, 1, Len(pre)) = pre

\* str.endswith(suf)
EndsWith(s, suf) ==
    /\ Len(suf) <= Len(s)
    /\ SubSeq(s, Len(s) - Len(suf) + 1, Len(s)) = suf

\* str.rfind(ch) + 1: the 1-based position of the last ch in s, 0 if absent
RFind(s, ch) ==
    LET hits == {i \in 1..Len(s) : s[i] = ch}
    IN  IF hits = {} THEN 0 ELSE CHOOSE i \in hits : \A j \in hits : j <= i

\* str.find(ch) + 1: the 1-based position of the first ch in s, 0 if absent
Find(s, ch) ==
    LET hits == {i \in 1..Len(s) : s[i] = ch}
    IN  IF hits = {} THEN 0 ELSE CHOOSE i \in hits : \A j \in hits : i <= j

\* str.split(ch): the pieces of s between occurrences of ch (never empty:
\* "".split('.') is [""])
RECURSIVE Split(_, _)
Split(s, ch) ==
    LET i == Find(s, ch)
    IN  IF i = 0 THEN <<s>>
        ELSE <<SubSeq(s, 1, i - 1)>> \o Split(SubSeq(s, i + 1, Len(s)), ch)

\* ch.join(parts)
RECURSIVE JoinWith(_, _)
JoinWith(parts, ch) ==
    IF parts = <<>> THEN <<>>
    ELSE IF Len(parts) = 1 THEN parts[1]
    ELSE parts[1] \o <<ch>> \o JoinWith(Tail(parts), ch)

\* str.replace(a, b) for single characters
Replace(s, a, b) == [i \in 1..Len(s) |-> IF s[i] = a THEN b ELSE s[i]]

\* The upper-case letters that occur in the modelled strings, with their
\* lower-case forms (str.lower)
LowerOf == [c \in {"P", "A"} |-> IF c = "P" THEN "p" ELSE "a"]

Lower(s) == [i \in 1..Len(s) |-> IF s[i] \in DOMAIN LowerOf THEN LowerOf[s[i]] ELSE s[i]]

\* Lexicographic order of strings by character code, as sorted() compares
\* str values.  CharCode lists the characters of the model in code order.
CharOrder == << "-", ".", "/", ":", "<", ">", "A", "P", "_",
                "a", "b", "c", "d", "e", "f", "g", "h", "i", "j", "k", "l",
                "m", "n", "o", "p", "q", "r", "s", "t", "u", "v", "w", "x",
                "y", "z" >>

CharCode(c) == CHOOSE i \in 1..Len(CharOrder) : CharOrder[i] = c

RECURSIVE StrLess(_, _)
StrLess(a, b) ==
    IF b = <<>> THEN FALSE
    ELSE IF a = <<>> THEN TRUE
    ELSE IF a[1] = b[1] THEN StrLess(Tail(a), Tail(b))
    ELSE CharCode(a[1]) < CharCode(b[1])

(***************************************************************************)
(* List primitives (Python list methods used by the code)                  *)
(***************************************************************************)

\* x in list
Contains(list, x) == \E i \in 1..Len(list) : list[i] = x

\* set(list)
ToSet(list) == {list[i] : i \in 1..Len(list)}

\* list.remove(x): removes the FIRST occurrence of x (x is in the list at
\* every call the code makes, each being guarded by a membership test or
\* preceded by an append of x)
ListRemove(list, x) ==
    LET i == CHOOSE k \in 1..Len(list) :
                 list[k] = x /\ \A j \in 1..(k - 1) : list[j] # x
    IN  SubSeq(list, 1, i - 1) \o SubSeq(list, i + 1, Len(list))

\* sorted(list(set(xs))) for a set of strings
RECURSIVE SortedStrings(_)
SortedStrings(set) ==
    IF set = {} THEN <<>>
    ELSE LET m == CHOOSE x \in set : \A y \in set \ {x} : StrLess(x, y)
         IN  <<m>> \o SortedStrings(set \ {m})

(***************************************************************************)
(* os.path                                                                 *)
(***************************************************************************)

\* os.path.basename
Basename(p) == SubSeq(p, RFind(p, "/") + 1, Len(p))

\* os.path.dirname (posix): the head of the split at the last "/", with its
\* trailing slashes stripped unless it is the root
Dirname(p) ==
    LET i == RFind(p, "/")
    IN  IF i = 0 THEN <<>>
        ELSE IF i = 1 THEN <<"/">>
        ELSE SubSeq(p, 1, i - 1)

\* os.path.splitext: <<root, ext>>; the extension starts at the last dot of
\* the basename, unless that dot is the basename's first character
Splitext(p) ==
    LET slash == RFind(p, "/")
        dot   == RFind(p, ".")
    IN  IF dot > slash + 1
        THEN <<SubSeq(p, 1, dot - 1), SubSeq(p, dot, Len(p))>>
        ELSE <<p, <<>>>>

\* os.path.join(a, b) for two components
PathJoin(a, b) ==
    IF StartsWith(b, <<"/">>) THEN b
    ELSE IF a = <<>> \/ EndsWith(a, <<"/">>) THEN a \o b
    ELSE a \o <<"/">> \o b

\* os.path.normpath for an absolute path: empty and "." components are
\* dropped, ".." removes the component before it (and is dropped at the root)
RECURSIVE NormComps(_, _)
NormComps(comps, acc) ==
    IF comps = <<>> THEN acc
    ELSE LET c == Head(comps)
         IN  IF c = <<>> \/ c = <<".">> THEN NormComps(Tail(comps), acc)
             ELSE IF c = <<".", ".">>
                  THEN NormComps(Tail(comps),
                                 IF acc = <<>> THEN acc
                                 ELSE SubSeq(acc, 1, Len(acc) - 1))
             ELSE NormComps(Tail(comps), Append(acc, c))

Normpath(p) == <<"/">> \o JoinWith(NormComps(Split(p, "/"), <<>>), "/")

\* The working directory of the process (os.getcwd())
Cwd == <<"/", "w">>

\* os.path.abspath(p) = normpath(join(getcwd(), p))
Abspath(p) == Normpath(PathJoin(Cwd, p))

(***************************************************************************)
(* The files of the modelled workspaces                                    *)
(***************************************************************************)

\* A Rust crate: lib.rs, parser.rs, util.rs
LibRs == <<"/", "w", "/", "l", "i", "b", ".", "r", "s">>
ParserRs == <<"/", "w", "/", "p", "a", "r", "s", "e", "r", ".", "r", "s">>
UtilRs == <<"/", "w", "/", "u", "t", "i", "l", ".", "r", "s">>

\* A TypeScript package: x.ts, z.js, the directory y and y/index.ts
XTs == <<"/", "w", "/", "x", ".", "t", "s">>
YDir == <<"/", "w", "/", "y">>
YIndexTs == <<"/", "w", "/", "y", "/", "i", "n", "d", "e", "x", ".", "t", "s">>
ZJs == <<"/", "w", "/", "z", ".", "j", "s">>

\* A Python package: a.py, b.py and bad.py, which does not parse
APy == <<"/", "w", "/", "a", ".", "p", "y">>
BPy == <<"/", "w", "/", "b", ".", "p", "y">>
BadPy == <<"/", "w", "/", "b", "a", "d", ".", "p", "y">>

\* A C++ program: main.cpp and two headers of the same stem; util.h is in
\* no directory
MainCpp == <<"/", "w", "/", "m", "a", "i", "n", ".", "c", "p", "p">>
VectorH == <<"/", "w", "/", "v", "e", "c", "t", "o", "r", ".", "h">>
VectorHpp == <<"/", "w", "/", "v", "e", "c", "t", "o", "r", ".", "h", "p", "p">>

\* Import tokens as they stand in the source text
TokA == <<"a">>
TokB == <<"b">>
TokOs == <<"o", "s">>
TokVector == <<"v", "e", "c", "t", "o", "r">>
TokVectorH == <<"v", "e", "c", "t", "o", "r", ".", "h">>
TokUtilH == <<"u", "t", "i", "l", ".", "h">>
TokCrateParser == <<"c", "r", "a", "t", "e", ":", ":", "p", "a", "r", "s", "e", "r", ":", ":", "P", "a", "r", "s", "e", "r">>
TokStdIo == <<"s", "t", "d", ":", ":", "i", "o">>
TokLib == <<"l", "i", "b">>
TokUtil == <<"u", "t", "i", "l">>
TokParser == <<"p", "a", "r", "s", "e", "r">>
TokDotY == <<".", "/", "y">>
TokDotZ == <<".", "/", "z">>
TokDotX == <<".", "/", "x">>
TokUpX == <<".", ".", "/", "x">>
TokLodash == <<"l", "o", "d", "a", "s", "h">>

\* A statement of a source file: the kind of statement and the text that the
\* detector's regular expression captures from it.
Stmt(kind, arg) == [kind |-> kind, arg |-> arg]

\* The text of every file.
\*   lib.rs:      use crate::parser::Parser;
\*   parser.rs:   mod util;  extern crate lib;
\*   util.rs:     use std::io;  mod parser;
\*   x.ts:        import {f} from './y';  import './z';
\*   y/index.ts:  import {g} from '../x';
\*   z.js:        const x = require('./x');  const l = require('lodash');
\*   a.py:        import b
\*   b.py:        import os;  from a import f
\*   bad.py:      import b;  def (:
\*   main.cpp:    #include <vector>;  #include "util.h"
\*   vector.h:    #include <vector>
\*   vector.hpp:  #include "vector.h"
Content(p) ==
    CASE p = LibRs    -> << Stmt("use", TokCrateParser) >>
      [] p = ParserRs -> << Stmt("mod", TokUtil), Stmt("extern_crate", TokLib) >>
      [] p = UtilRs   -> << Stmt("use", TokStdIo), Stmt("mod", TokParser) >>
      [] p = XTs      -> << Stmt("import_from", TokDotY), Stmt("import_bare", TokDotZ) >>
      [] p = YIndexTs -> << Stmt("import_from", TokUpX) >>
      [] p = ZJs      -> << Stmt("require", TokDotX), Stmt("require", TokLodash) >>
      [] p = APy      -> << Stmt("import", TokB) >>
      [] p = BPy      -> << Stmt("import", TokOs), Stmt("from", TokA) >>
      [] p = BadPy    -> << Stmt("import", TokB), Stmt("syntax_error", <<>>) >>
      [] p = MainCpp  -> << Stmt("include_system", TokVector), Stmt("include_local", TokUtilH) >>
      [] p = VectorH  -> << Stmt("include_system", TokVector) >>
      [] p = VectorHpp -> << Stmt("include_local", TokVectorH) >>
      [] OTHER        -> <<>>

\* Directories: open() of a directory raises, which every detector catches
Directories == {YDir}

\* A workspace: the paths that can exist in it
World(name) ==
    CASE name = "rust" -> {LibRs, ParserRs, UtilRs}
      [] name = "ts"   -> {XTs, YDir, YIndexTs, ZJs}
      [] name = "py"   -> {APy, BPy, BadPy}
      [] name = "cpp"  -> {MainCpp, VectorH, VectorHpp}

Worlds == {"rust", "ts", "py", "cpp"}

\* os.path.exists
Exists(disk, p) == p \in disk

\* open(p).read() succeeds: p is an existing regular file
Readable(disk, p) == p \in disk /\ p \notin Directories

(***************************************************************************)
(* DependencyDetector: the language handlers                               *)
(***************************************************************************)

\* str.strip() (spaces)
RECURSIVE Strip(_)
Strip(s) ==
    IF s = <<>> THEN s
    ELSE IF Head(s) = " " THEN Strip(Tail(s))
    ELSE IF s[Len(s)] = " " THEN Strip(SubSeq(s, 1, Len(s) - 1))
    ELSE s

\* re.finditer(pattern, content): the captured groups, in file order, of the
\* statements that the pattern matches; a pattern is given by the kinds of
\* statement it matches
RECURSIVE Captures(_, _)
Captures(content, kinds) ==
    IF content = <<>> THEN <<>>
    ELSE (IF Head(content).kind \in kinds THEN <<Head(content).arg>> ELSE <<>>)
         \o Captures(Tail(content), kinds)

\* The first element x of list with Exists(disk, x), or None
FirstExisting(disk, list) ==
    LET hits == {i \in 1..Len(list) : Exists(disk, list[i])}
    IN  IF hits = {} THEN None
        ELSE list[CHOOSE i \in hits : \A j \in hits : i <= j]

\* The pair of lists every handler builds
Lists(certain, possible) == [certain |-> certain, possible |-> possible]

\* _detect_rust_dependencies: the loop over the `mod` statements
RECURSIVE RustMods(_, _, _, _)
RustMods(disk, current_dir, names, acc) ==
    IF names = <<>> THEN acc
    ELSE LET module_name == Strip(Head(names))
             module_file == PathJoin(current_dir, module_name \o <<".", "r", "s">>)
             module_dir_file == PathJoin(PathJoin(current_dir, module_name),
                                         <<"m", "o", "d", ".", "r", "s">>)
             next == IF module_name = <<>> THEN acc
                     ELSE IF Exists(disk, module_file)
                          THEN Lists(Append(acc.certain, Abspath(module_file)), acc.possible)
                     ELSE IF Exists(disk, module_dir_file)
                          THEN Lists(Append(acc.certain, Abspath(module_dir_file)), acc.possible)
                     ELSE Lists(acc.certain, Append(acc.possible, module_name))
         IN  RustMods(disk, current_dir, Tail(names), next)

\* The stripped, non-empty captures of a pattern
RECURSIVE StrippedNonEmpty(_)
StrippedNonEmpty(caps) ==
    IF caps = <<>> THEN <<>>
    ELSE (IF Strip(Head(caps)) # <<>> THEN <<Strip(Head(caps))>> ELSE <<>>)
         \o StrippedNonEmpty(Tail(caps))

_detect_rust_dependencies(disk, file_path) ==
    IF ~Readable(disk, file_path) THEN Lists(<<>>, <<>>)
    ELSE LET content == Content(file_path)
             uses    == StrippedNonEmpty(Captures(content, {"use"}))
             crates  == StrippedNonEmpty(Captures(content, {"extern_crate"}))
         IN  RustMods(disk, Dirname(file_path), Captures(content, {"mod"}),
                      Lists(<<>>, uses \o crates))

\* certain_dependencies.append(abs_import_path) and
\* possible_dependencies.remove(raw), when a candidate path exists
Resolved(lists, raw, abs_import_path) ==
    IF abs_import_path = None THEN lists
    ELSE Lists(Append(lists.certain, abs_import_path), ListRemove(lists.possible, raw))

\* The loop over `extensions`: the first existing module_path + ext
TryExtensions(disk, current_dir, module_path) ==
    LET extensions == << <<>>, <<".", "j", "s">>, <<".", "j", "s", "x">>,
                         <<".", "t", "s">>, <<".", "t", "s", "x">>,
                         <<".", "j", "s", "o", "n">> >>
    IN  FirstExisting(disk,
            [i \in 1..Len(extensions) |->
                Abspath(PathJoin(current_dir, module_path \o extensions[i]))])

\* The loop over index_files, entered when the raw path is still in
\* possible_dependencies
TryIndexFiles(disk, current_dir, module_path, raw, lists) ==
    LET index_files == << PathJoin(module_path, <<"i", "n", "d", "e", "x", ".", "j", "s">>),
                          PathJoin(module_path, <<"i", "n", "d", "e", "x", ".", "j", "s", "x">>),
                          PathJoin(module_path, <<"i", "n", "d", "e", "x", ".", "t", "s">>),
                          PathJoin(module_path, <<"i", "n", "d", "e", "x", ".", "t", "s", "x">>) >>
    IN  IF Contains(lists.possible, raw)
        THEN Resolved(lists, raw,
                 FirstExisting(disk,
                     [i \in 1..Len(index_files) |->
                         Abspath(PathJoin(current_dir, index_files[i]))]))
        ELSE lists

\* module_path with a leading "./" removed
StripDotSlash(module_path) ==
    IF StartsWith(module_path, <<".", "/">>)
    THEN SubSeq(module_path, 3, Len(module_path)) ELSE module_path

\* _detect_js_dependencies: the body of the loop for one match
JsMatch(disk, current_dir, raw, acc) ==
    IF raw = <<>> THEN acc
    ELSE IF ~(\/ StartsWith(raw, <<".", "/">>)
              \/ StartsWith(raw, <<".", ".", "/">>)
              \/ StartsWith(raw, <<"/">>))
         THEN Lists(acc.certain, Append(acc.possible, raw))
    ELSE TryIndexFiles(disk, current_dir, StripDotSlash(raw), raw,
             Resolved(Lists(acc.certain, Append(acc.possible, raw)), raw,
                      TryExtensions(disk, current_dir, StripDotSlash(raw))))

RECURSIVE JsMatches(_, _, _, _)
JsMatches(disk, current_dir, caps, acc) ==
    IF caps = <<>> THEN acc
    ELSE JsMatches(disk, current_dir, Tail(caps),
                   JsMatch(disk, current_dir, Head(caps), acc))

\* The three import_patterns: which statements each one matches.
\*   1  (?:import|require)\s*\(\s*['"]...['"]\s*\)     require('m'), import('m')
\*   2  from\s+['"]...['"]                               ... from 'm'
\*   3  import\s+(?:[^;]*\s+from\s+)?['"]...['"]        import 'm', import x from 'm'
import_patterns ==
    << {"require", "import_call"},
       {"import_from", "export_from"},
       {"import_from", "import_bare"} >>

_detect_js_dependencies(disk, file_path) ==
    IF ~Readable(disk, file_path) THEN Lists(<<>>, <<>>)
    ELSE LET content == Content(file_path)
             caps == Captures(content, import_patterns[1])
                     \o Captures(content, import_patterns[2])
                     \o Captures(content, import_patterns[3])
         IN  JsMatches(disk, Dirname(file_path), caps, Lists(<<>>, <<>>))

\* _detect_python_dependencies: the loop that resolves local imports; it runs
\* over a copy of possible_dependencies and removes from the list itself
RECURSIVE PyResolve(_, _, _, _)
PyResolve(disk, current_dir, modules, acc) ==
    IF modules = <<>> THEN acc
    ELSE PyResolve(disk, current_dir, Tail(modules),
             Resolved(acc, Head(modules),
                 FirstExisting(disk,
                     << Abspath(PathJoin(current_dir,
                            Replace(Head(modules), ".", "/") \o <<".", "p", "y">>)) >>)))

\* ast.parse raises SyntaxError on a file that holds a malformed statement
ParsesAsPython(content) == \A i \in 1..Len(content) : content[i].kind # "syntax_error"

\* Sensitivity of C11: the handler without the loop that resolves local
\* imports
PythonImportsUnresolved(disk, file_path) ==
    IF ~Readable(disk, file_path) \/ ~ParsesAsPython(Content(file_path))
    THEN Lists(<<>>, <<>>)
    ELSE Lists(<<>>, Captures(Content(file_path), {"import", "from"}))

\* Sensitivity of C16: the handler keeping what it captured from a file that
\* does not parse
PythonSyntaxErrorIgnored(disk, file_path) ==
    IF ~Readable(disk, file_path) THEN Lists(<<>>, <<>>)
    ELSE PyResolve(disk, Dirname(file_path),
                   Captures(Content(file_path), {"import", "from"}),
                   Lists(<<>>, Captures(Content(file_path), {"import", "from"})))

_detect_python_dependencies(disk, file_path) ==
    IF ~Readable(disk, file_path) \/ ~ParsesAsPython(Content(file_path))
    THEN Lists(<<>>, <<>>)
    ELSE LET modules == Captures(Content(file_path), {"import", "from"})
         IN  PyResolve(disk, Dirname(file_path), modules, Lists(<<>>, modules))

\* _detect_cpp_dependencies: the loop over the quoted includes
RECURSIVE CppLocals(_, _, _, _)
CppLocals(disk, current_dir, headers, acc) ==
    IF headers = <<>> THEN acc
    ELSE LET header == Head(headers)
             include_dirs == << PathJoin(Dirname(current_dir), <<"i", "n", "c", "l", "u", "d", "e">>),
                                PathJoin(current_dir, <<"i", "n", "c", "l", "u", "d", "e">>) >>
             candidates == << Abspath(PathJoin(current_dir, header)),
                              Abspath(PathJoin(include_dirs[1], header)),
                              Abspath(PathJoin(include_dirs[2], header)) >>
         IN  CppLocals(disk, current_dir, Tail(headers),
                 IF header = <<>> THEN acc
                 ELSE Resolved(Lists(acc.certain, Append(acc.possible, header)), header,
                               FirstExisting(disk, candidates)))

\* The non-empty captures of a pattern
RECURSIVE NonEmpty(_)
NonEmpty(caps) ==
    IF caps = <<>> THEN <<>>
    ELSE (IF Head(caps) # <<>> THEN <<Head(caps)>> ELSE <<>>) \o NonEmpty(Tail(caps))

\* Sensitivity of C12: the handler without the loop over the system includes
CppSystemIncludesDropped(disk, file_path) ==
    IF ~Readable(disk, file_path) THEN Lists(<<>>, <<>>)
    ELSE CppLocals(disk, Dirname(file_path),
                   Captures(Content(file_path), {"include_local"}), Lists(<<>>, <<>>))

_detect_cpp_dependencies(disk, file_path) ==
    IF ~Readable(disk, file_path) THEN Lists(<<>>, <<>>)
    ELSE LET content == Content(file_path)
             system == NonEmpty(Captures(content, {"include_system"}))
         IN  CppLocals(disk, Dirname(file_path), Captures(content, {"include_local"}),
                       Lists(<<>>, system))

\* language_handlers: the handler of a (lower-cased) file extension, "none"
\* for an extension that is not in the table
language_handlers(file_ext) ==
    CASE file_ext = <<".", "p", "y">> -> "python"
      [] file_ext \in { <<".", "j", "s">>, <<".", "j", "s", "x">>,
                        <<".", "t", "s">>, <<".", "t", "s", "x">> } -> "js"
      [] file_ext \in { <<".", "c">>, <<".", "c", "p", "p">>, <<".", "c", "c">>,
                        <<".", "c", "x", "x">>, <<".", "h">>, <<".", "h", "p", "p">>,
                        <<".", "h", "x", "x">> } -> "cpp"
      [] file_ext = <<".", "r", "s">> -> "rust"
      [] OTHER -> "none"

\* The language handler's output for an existing file: (certain, possible)
LanguageOutput(disk, abs_file_path) ==
    LET handler == language_handlers(Lower(Splitext(abs_file_path)[2]))
    IN  CASE handler = "python" -> _detect_python_dependencies(disk, abs_file_path)
          [] handler = "js"     -> _detect_js_dependencies(disk, abs_file_path)
          [] handler = "cpp"    -> _detect_cpp_dependencies(disk, abs_file_path)
          [] handler = "rust"   -> _detect_rust_dependencies(disk, abs_file_path)
          [] OTHER              -> Lists(<<>>, <<>>)

(***************************************************************************)
(* DependencyDetector.detect_dependencies: cross-language matching         *)
(***************************************************************************)

\* The test of one possible import against one tracked file (either of the
\* two `if`s of the inner loop appends the tracked file and breaks)
MatchesTracked(dep, tracked_file) ==
    LET tracked_basename == Basename(tracked_file)
        tracked_stem == Splitext(tracked_basename)[1]
        parts == Split(dep, ".")
        last_part == parts[Len(parts)]
    IN  \/ tracked_stem = dep
        \/ tracked_stem = last_part
        \/ EndsWith(dep, tracked_basename)
        \/ dep = tracked_basename

\* Sensitivity of C13: the inner loop left after its first tracked file
FirstMatchHeadOnly(dep, tracked_files) ==
    IF tracked_files # <<>> /\ MatchesTracked(dep, tracked_files[1])
    THEN tracked_files[1]
    ELSE None

\* The first tracked file, in list order, that the possible import matches;
\* None if there is none
FirstMatch(dep, tracked_files) ==
    LET hits == {i \in 1..Len(tracked_files) : MatchesTracked(dep, tracked_files[i])}
    IN  IF hits = {} THEN None
        ELSE tracked_files[CHOOSE i \in hits : \A j \in hits : i <= j]

\* The loop over possible_dependencies: acc.certain is enhanced_certain,
\* acc.possible is remaining_possible
RECURSIVE CrossMatch(_, _, _)
CrossMatch(possible_dependencies, tracked_files, acc) ==
    IF possible_dependencies = <<>> THEN acc
    ELSE LET dep == Head(possible_dependencies)
             hit == FirstMatch(dep, tracked_files)
             next == IF hit # None
                     THEN Lists(Append(acc.certain, hit), acc.possible)
                     ELSE Lists(acc.certain, Append(acc.possible, dep))
         IN  CrossMatch(Tail(possible_dependencies), tracked_files, next)

\* Sensitivity of C28: the lists returned as the loops built them
ResultAsCollected(lists) ==
    [imports |-> lists.certain, possible_imports |-> lists.possible]

\* Sorted, de-duplicated lists: the returned dict
Result(lists) ==
    [imports |-> SortedStrings(ToSet(lists.certain)),
     possible_imports |-> SortedStrings(ToSet(lists.possible))]

\* Sensitivity of C8: enhanced_certain starting empty
CrossReferenceFromEmpty(out, tracked_files) ==
    Result(CrossMatch(out.possible, tracked_files, Lists(<<>>, <<>>)))

\* Lines 93-129: cross matching of the handler's output `out` and the result
CrossReference(out, tracked_files) ==
    Result(CrossMatch(out.possible, tracked_files, Lists(out.certain, <<>>)))

detect_dependencies(disk, file_path, tracked_files) ==
    IF ~Exists(disk, Abspath(file_path))
    THEN [imports |-> <<>>, possible_imports |-> <<>>]
    ELSE CrossReference(LanguageOutput(disk, Abspath(file_path)), tracked_files)

(***************************************************************************)
(* Python dicts: a dict keeps its keys in insertion order                  *)
(***************************************************************************)

EmptyDict == [keys |-> <<>>, val |-> <<>>]

\* k in d
Has(d, k) == k \in DOMAIN d.val

\* d[k] = v: a new key goes last, an existing key keeps its place
DictSet(d, k, v) ==
    [keys |-> IF Has(d, k) THEN d.keys ELSE Append(d.keys, k),
     val  |-> [x \in (DOMAIN d.val) \cup {k} |-> IF x = k THEN v ELSE d.val[x]]]

\* del d[k]
DictDel(d, k) ==
    [keys |-> SelectSeq(d.keys, LAMBDA x : x # k),
     val  |-> [x \in (DOMAIN d.val) \ {k} |-> d.val[x]]]

(***************************************************************************)
(* FileRankManager: self.data and the data file                            *)
(*                                                                         *)
(* data.files[p] is the dict {"rank", "summary"} that rank_file stores;    *)
(* get_file adds the keys "dependencies" and "imported_by" to that same    *)
(* dict.  "dependencies" then refers to the very dict that                 *)
(* data.dependencies[p] holds (an alias); in the data file it is a copy.   *)
(***************************************************************************)

\* A number as Python holds it after json.loads: its type ("int", "float" or
\* "bool") and twice its value, so that 2.5 is told from 2 and from 3
PyNum(type, twice) == [type |-> type, twice |-> twice]
PyInt(n) == PyNum("int", 2 * n)

\* a < b on two numbers
NumLess(a, b) == a.twice < b.twice

\* The valid ranks (rank_file)
MinRank == 1
MaxRank == 10

\* The value of an absent key, of the key "dependencies" while it aliases
\* data.dependencies[p], and of a copy of a record
Absent == [present |-> FALSE]
Alias == [present |-> TRUE, alias |-> TRUE]
CopyOf(rec) == [present |-> TRUE, alias |-> FALSE, value |-> rec]

\* {"rank": rank, "summary": summary}
FileInfo(rank, summary) ==
    [rank |-> rank, summary |-> summary, dependencies |-> Absent, imported_by |-> Absent]

DefaultSummary == <<"No summary provided.">>

\* load_data when the data file does not exist
EmptyData == [files |-> EmptyDict, dependencies |-> EmptyDict]

\* json.dump(self.data): what save_data writes; an aliased record is written
\* out as its current value
Serialize(d) ==
    [files |->
        [keys |-> d.files.keys,
         val  |-> [p \in DOMAIN d.files.val |->
                     IF d.files.val[p].dependencies = Alias
                     THEN [d.files.val[p] EXCEPT
                             !.dependencies = CopyOf(d.dependencies.val[p])]
                     ELSE d.files.val[p]]],
     dependencies |-> d.dependencies]

save_data(d) == Serialize(d)

\* What an operation does: the new self.data, the new content of the data
\* file and the returned value
Outcome(d, f, r) == [data |-> d, file |-> f, ret |-> r]

(***************************************************************************)
(* FileRankManager: the operations                                         *)
(***************************************************************************)

rank_file(disk, d, f, file_path, rank, summary) ==
    LET abs_file_path == Abspath(file_path)
        s == IF summary = None THEN DefaultSummary ELSE summary
        d2 == [d EXCEPT !.files = DictSet(@, abs_file_path, FileInfo(rank, s))]
    IN  IF ~Exists(disk, file_path)
        THEN Outcome(d, f, [status |-> "error", why |-> "not found"])
        ELSE IF NumLess(rank, PyInt(MinRank)) \/ NumLess(PyInt(MaxRank), rank)
        THEN Outcome(d, f, [status |-> "error", why |-> "rank"])
        ELSE Outcome(d2, save_data(d2), [status |-> "success"])

\* Sensitivity of C1: delete_file without its loop over the other records
RemoveFromImportsSkipped(deps, abs_file_path) == deps

\* The loop of delete_file over the records: the path is removed from the
\* imports of every record that lists it (list.remove: one occurrence)
RemoveFromImports(deps, abs_file_path) ==
    [keys |-> deps.keys,
     val  |-> [p \in DOMAIN deps.val |->
                 IF Contains(deps.val[p].imports, abs_file_path)
                 THEN [deps.val[p] EXCEPT !.imports = ListRemove(@, abs_file_path)]
                 ELSE deps.val[p]]]

\* Sensitivity of C2: delete_file with the clean-up of the dependencies in
\* the branch of a path that is not ranked
delete_file_cleanup_misplaced(d, f, file_path) ==
    LET abs_file_path == Abspath(file_path)
        deps2 == IF Has(d.dependencies, abs_file_path)
                 THEN DictDel(d.dependencies, abs_file_path)
                 ELSE d.dependencies
        ranked == [d EXCEPT !.files = DictDel(@, abs_file_path)]
        unranked == [d EXCEPT !.dependencies = RemoveFromImports(deps2, abs_file_path)]
    IN  IF Has(d.files, abs_file_path)
        THEN Outcome(ranked, save_data(ranked), [status |-> "success"])
        ELSE Outcome(unranked, save_data(unranked),
                     [status |-> "error", why |-> "not in rankings"])

delete_file(d, f, file_path) ==
    LET abs_file_path == Abspath(file_path)
        files2 == DictDel(d.files, abs_file_path)
        deps2 == IF Has(d.dependencies, abs_file_path)
                 THEN DictDel(d.dependencies, abs_file_path)
                 ELSE d.dependencies
        d2 == [files |-> files2, dependencies |-> RemoveFromImports(deps2, abs_file_path)]
    IN  IF Has(d.files, abs_file_path)
        THEN Outcome(d2, save_data(d2), [status |-> "success"])
        ELSE Outcome(d, f, [status |-> "error", why |-> "not in rankings"])

\* self.data["dependencies"][p]["imports"] = ...; ["possible_imports"] = ...
\* (the record dict is created empty when the path has none)
RecordDependencies(deps, p, result) ==
    DictSet(deps, p, [imports |-> result.imports,
                      possible_imports |-> result.possible_imports])

\* Lines 559-572 of update_dependencies: the record is stored, the data saved
\* and the result returned
Updated(d, abs_file_path, result) ==
    Outcome([d EXCEPT !.dependencies = RecordDependencies(@, abs_file_path, result)],
            save_data([d EXCEPT !.dependencies = RecordDependencies(@, abs_file_path, result)]),
            [status |-> "success",
             imports_count |-> Len(result.imports),
             imports |-> result.imports,
             possible_count |-> Len(result.possible_imports),
             possible_imports |-> result.possible_imports])

update_dependencies(disk, d, f, file_path) ==
    IF ~Exists(disk, Abspath(file_path))
    THEN Outcome(d, f, [status |-> "error", why |-> "not found"])
    ELSE Updated(d, Abspath(file_path),
                 detect_dependencies(disk, Abspath(file_path), d.files.keys))

\* The loop of scan_all_dependencies over self.data["files"].keys(); acc
\* holds the dependencies dict, updated_files and the two totals
Scanned(acc, file_path, result) ==
    [dependencies |-> RecordDependencies(acc.dependencies, file_path, result),
     updated_files |-> Append(acc.updated_files, file_path),
     total_imports |-> acc.total_imports + Len(result.imports),
     total_possible |-> acc.total_possible + Len(result.possible_imports)]

\* Sensitivity of C15: the loop without `if not os.path.exists: continue`
RECURSIVE ScanLoopMissingIncluded(_, _, _, _)
ScanLoopMissingIncluded(disk, paths, tracked_files, acc) ==
    IF paths = <<>> THEN acc
    ELSE ScanLoopMissingIncluded(disk, Tail(paths), tracked_files,
             Scanned(acc, Head(paths),
                     detect_dependencies(disk, Head(paths), tracked_files)))

RECURSIVE ScanLoop(_, _, _, _)
ScanLoop(disk, paths, tracked_files, acc) ==
    IF paths = <<>> THEN acc
    ELSE ScanLoop(disk, Tail(paths), tracked_files,
             IF ~Exists(disk, Head(paths)) THEN acc
             ELSE Scanned(acc, Head(paths),
                          detect_dependencies(disk, Head(paths), tracked_files)))

\* Lines 613-621 of scan_all_dependencies: the data is saved and the result
\* returned
ScannedAll(d, done) ==
    Outcome([d EXCEPT !.dependencies = done.dependencies],
            save_data([d EXCEPT !.dependencies = done.dependencies]),
            [status |-> "success",
             updated_files |-> done.updated_files,
             total_imports |-> done.total_imports,
             total_possible_imports |-> done.total_possible])

scan_all_dependencies(disk, d, f) ==
    IF d.files.keys = <<>>
    THEN Outcome(d, f, [status |-> "info"])
    ELSE ScannedAll(d, ScanLoop(disk, d.files.keys, d.files.keys,
                                [dependencies |-> d.dependencies, updated_files |-> <<>>,
                                 total_imports |-> 0, total_possible |-> 0]))

\* Sensitivity of C3: the loop over the records leaving at the first record
\* that lists the path
DependentsLoopFirstOnly(deps, keys, abs_file_path) ==
    LET hits == {i \in 1..Len(keys) : Contains(deps.val[keys[i]].imports, abs_file_path)}
    IN  IF hits = {} THEN <<>>
        ELSE <<keys[CHOOSE i \in hits : \A j \in hits : i <= j]>>

\* The loop `for dep_file, deps in self.data["dependencies"].items()` of
\* get_file, get_file_dependents and visualize_dependencies: the keys, in
\* dict order, of the records whose imports list the path
RECURSIVE DependentsLoop(_, _, _)
DependentsLoop(deps, keys, abs_file_path) ==
    IF keys = <<>> THEN <<>>
    ELSE (IF Contains(deps.val[Head(keys)].imports, abs_file_path)
          THEN <<Head(keys)>> ELSE <<>>)
         \o DependentsLoop(deps, Tail(keys), abs_file_path)

get_file_dependencies(disk, d, f, file_path) ==
    LET abs_file_path == Abspath(file_path)
    IN  IF ~Exists(disk, abs_file_path)
        THEN Outcome(d, f, [status |-> "error", why |-> "not found"])
        ELSE IF ~Has(d.dependencies, abs_file_path)
        THEN Outcome(d, f, [status |-> "info"])
        ELSE Outcome(d, f, [status |-> "ok", file |-> abs_file_path,
                            dependencies |-> d.dependencies.val[abs_file_path]])

\* dependent_info: {"file": dep_file} updated with the file's rank and
\* summary when it is ranked
DependentInfo(d, dep_file) ==
    IF Has(d.files, dep_file)
    THEN [file |-> dep_file, ranked |-> TRUE, rank |-> d.files.val[dep_file].rank,
          summary |-> d.files.val[dep_file].summary]
    ELSE [file |-> dep_file, ranked |-> FALSE]

get_file_dependents(disk, d, f, file_path) ==
    LET abs_file_path == Abspath(file_path)
        found == DependentsLoop(d.dependencies, d.dependencies.keys, abs_file_path)
        dependents == [i \in 1..Len(found) |-> DependentInfo(d, found[i])]
    IN  IF ~Exists(disk, abs_file_path)
        THEN Outcome(d, f, [status |-> "error", why |-> "not found"])
        ELSE IF dependents = <<>>
        THEN Outcome(d, f, [status |-> "info"])
        ELSE Outcome(d, f, [status |-> "ok", file |-> abs_file_path,
                            dependents |-> dependents])

\* get_file: the returned dict is self.data["files"][p] itself, so the keys
\* it adds stay in self.data (unsaved until the next save_data)
get_file(d, f, file_path) ==
    LET abs_file_path == Abspath(file_path)
        info == d.files.val[abs_file_path]
        dependents == DependentsLoop(d.dependencies, d.dependencies.keys, abs_file_path)
        info2 == [info EXCEPT
                    !.dependencies = IF Has(d.dependencies, abs_file_path) THEN Alias ELSE @,
                    !.imported_by = IF dependents # <<>> THEN CopyOf(dependents) ELSE @]
        d2 == [d EXCEPT !.files.val[abs_file_path] = info2]
    IN  IF Has(d.files, abs_file_path)
        THEN Outcome(d2, f, [status |-> "ok", file |-> abs_file_path,
                             info |-> Serialize(d2).files.val[abs_file_path]])
        ELSE Outcome(d, f, [status |-> "error", why |-> "not in rankings"])

(***************************************************************************)
(* visualize_dependencies: build_tree, one step of the recursion at a time *)
(*                                                                         *)
(* The traversal state holds the call stack of build_tree, the `visited`   *)
(* set, the dependencies dict (deps.sort sorts the stored lists in place)  *)
(* and the value returned by the call that finished last.  A line of the   *)
(* tree is the record of the parts of the formatted string; the fields     *)
(* depth, parent and leaf are not part of the text: they record the depth  *)
(* of the file the line shows, the file it is listed under and whether the *)
(* line was produced by the `else` branch (a dependency shown without      *)
(* recursing).                                                             *)
(***************************************************************************)

\* os.path.relpath(path) for a path below the working directory
Relpath(path) ==
    IF StartsWith(path, Cwd \o <<"/">>)
    THEN SubSeq(path, Len(Cwd) + 2, Len(path))
    ELSE path

\* The rank get_rank gives an unranked file
UnrankedSortKey == 999

get_rank(files, dep_path) ==
    IF Has(files, dep_path) THEN files.val[dep_path].rank ELSE PyInt(UnrankedSortKey)

\* list.sort(key=get_rank): a stable sort; Insert puts x behind the elements
\* whose key is not greater
RECURSIVE InsertByRank(_, _, _)
InsertByRank(files, sorted, x) ==
    IF sorted = <<>> THEN <<x>>
    ELSE IF ~NumLess(get_rank(files, x), get_rank(files, Head(sorted)))
         THEN <<Head(sorted)>> \o InsertByRank(files, Tail(sorted), x)
         ELSE <<x>> \o sorted

\* Sensitivity of C23: the list left in its stored order
SortByRankSkipped(files, list, sorted) == sorted \o list

RECURSIVE SortByRank(_, _, _)
SortByRank(files, list, sorted) ==
    IF list = <<>> THEN sorted
    ELSE SortByRank(files, Tail(list), InsertByRank(files, sorted, Head(list)))

\* f" [rank: {rank}]" for a ranked file, "" otherwise
Importance(files, path) ==
    IF Has(files, path) THEN <<files.val[path].rank>> ELSE <<>>

Line(prefix, connector, path, importance, depth, parent, leaf) ==
    [prefix |-> prefix, connector |-> connector, path |-> path,
     importance |-> importance, depth |-> depth, parent |-> parent, leaf |-> leaf]

Frame(path, depth, prefix) ==
    [path |-> path, depth |-> depth, prefix |-> prefix,
     pc |-> "enter", result |-> <<>>, i |-> 0]

\* The state at the call build_tree(abs_file_path)
TreeStart(files, deps, abs_file_path, max_depth) ==
    [stack |-> <<Frame(abs_file_path, 0, <<>>)>>,
     visited |-> {},
     files |-> files,
     deps |-> deps,
     max_depth |-> max_depth,
     returned |-> <<>>,
     expanded |-> <<>>,
     done |-> FALSE]

\* `return value` from the running call
TreeReturn(t, value) ==
    [t EXCEPT !.stack = SubSeq(@, 1, Len(@) - 1),
              !.returned = value,
              !.done = (Len(t.stack) = 1)]

\* The list `deps` of the running call: the stored imports of its path
FrameDeps(t, fr) ==
    IF Has(t.deps, fr.path) THEN t.deps.val[fr.path].imports ELSE <<>>

\* Sensitivity of C7: the guard one level late
GuardOneDeeper(t, fr) == fr.depth > t.max_depth + 1 \/ fr.path \in t.visited

\* `if depth > max_depth or path in visited`
Guard(t, fr) == fr.depth > t.max_depth \/ fr.path \in t.visited

\* Sensitivity of C5: the path is not recorded as visited
VisitedAddNothing(visited, path) == visited

\* visited.add(path)
VisitedAdd(visited, path) == visited \cup {path}

\* Entry of build_tree: the guard, visited.add, the line of the file itself
\* and deps.sort
TreeEnter(t) ==
    LET n == Len(t.stack)
        fr == t.stack[n]
        parent == IF n = 1 THEN None ELSE t.stack[n - 1].path
        line == Line(fr.prefix, "tee", Relpath(fr.path), Importance(t.files, fr.path),
                     fr.depth, parent, FALSE)
        sorted == IF Has(t.deps, fr.path)
                  THEN [t.deps EXCEPT !.val[fr.path].imports = SortByRank(t.files, @, <<>>)]
                  ELSE t.deps
    IN  IF Guard(t, fr)
        THEN TreeReturn(t, <<>>)
        ELSE [t EXCEPT !.visited = VisitedAdd(@, fr.path),
                       !.expanded = Append(@, fr.path),
                       !.deps = sorted,
                       !.stack[n] = [fr EXCEPT !.pc = "loop", !.result = <<line>>, !.i = 1]]

\* new_prefix of the dependency at position i of the running call
NewPrefix(t, fr) ==
    LET is_last == (fr.i = Len(FrameDeps(t, fr)))
    IN  fr.prefix \o <<IF is_last THEN "    " ELSE "|   ">>

\* The head of the loop `for i, dep in enumerate(deps)`: the loop ends, the
\* dependency is skipped because it is in visited, or build_tree is called
TreeLoop(t) ==
    LET n == Len(t.stack)
        fr == t.stack[n]
        deps == FrameDeps(t, fr)
        dep == deps[fr.i]
    IN  IF fr.i > Len(deps)
        THEN TreeReturn(t, fr.result)
        ELSE IF dep \notin t.visited
        THEN [t EXCEPT !.stack = Append([@ EXCEPT ![n].pc = "returned"],
                                        Frame(dep, fr.depth + 1,
                                              fr.prefix \o NewPrefix(t, fr)))]
        ELSE [t EXCEPT !.stack[n].i = fr.i + 1]

\* Sensitivity of C6: the line of the dependency added after its tree as well
ExtendedAndAppended(result, dep_tree, leaf) == Append(result \o dep_tree, leaf)

\* result.extend(dep_tree) if dep_tree, else result.append(line)
Extended(result, dep_tree, leaf) ==
    IF dep_tree # <<>> THEN result \o dep_tree ELSE Append(result, leaf)

\* After dep_tree = build_tree(dep, ...): extend the result by it, or add
\* the line of the dependency when it is empty
TreeReturned(t) ==
    LET n == Len(t.stack)
        fr == t.stack[n]
        deps == FrameDeps(t, fr)
        dep == deps[fr.i]
        is_last == (fr.i = Len(deps))
        leaf == Line(fr.prefix \o NewPrefix(t, fr),
                     IF is_last THEN "corner" ELSE "tee",
                     Relpath(dep), Importance(t.files, dep),
                     fr.depth + 1, fr.path, TRUE)
    IN  [t EXCEPT !.stack[n] =
            [fr EXCEPT !.result = Extended(@, t.returned, leaf),
                       !.i = fr.i + 1,
                       !.pc = "loop"]]

\* One step of the running call
TreeStep(t) ==
    LET pc == t.stack[Len(t.stack)].pc
    IN  CASE pc = "enter"    -> TreeEnter(t)
          [] pc = "loop"     -> TreeLoop(t)
          [] pc = "returned" -> TreeReturned(t)

\* build_tree(abs_file_path) run to its return
RECURSIVE TreeRun(_)
TreeRun(t) == IF t.done THEN t ELSE TreeRun(TreeStep(t))

\* dependent_lines: the header and one line for each dependent
DependentLines(d, dependents) ==
    IF dependents = <<>> THEN <<>>
    ELSE <<[header |-> TRUE]>> \o
         [i \in 1..Len(dependents) |->
            [header |-> FALSE, path |-> Relpath(dependents[i]),
             importance |-> Importance(d.files, dependents[i])]]

\* Lines 1448-1493, after build_tree has returned as traversal t: the
\* dependents, the counts and the returned dict (the stored imports stay as
\* deps.sort left them; nothing is saved)
Visualized(d, f, abs_file_path, max_depth, t) ==
    LET d2 == [d EXCEPT !.dependencies = t.deps]
        dependents == DependentsLoop(d2.dependencies, d2.dependencies.keys, abs_file_path)
        rec == d2.dependencies.val[abs_file_path]
    IN  Outcome(d2, f,
                [status |-> "ok", file |-> abs_file_path,
                 dependency_tree |-> t.returned,
                 dependents |-> DependentLines(d2, dependents),
                 stats |-> [depth |-> max_depth,
                            certain_dependencies |-> Len(rec.imports),
                            possible_imports |-> Len(rec.possible_imports),
                            dependents_count |-> Len(dependents)]])

visualize_dependencies(disk, d, f, file_path, max_depth) ==
    IF ~Exists(disk, Abspath(file_path))
    THEN Outcome(d, f, [status |-> "error", why |-> "not found"])
    ELSE IF ~Has(d.dependencies, Abspath(file_path))
    THEN Outcome(d, f, [status |-> "info"])
    ELSE Visualized(d, f, Abspath(file_path), max_depth,
                    TreeRun(TreeStart(d.files, d.dependencies, Abspath(file_path),
                                      max_depth)))

(***************************************************************************)
(* FileRankManager: the operations that only the command loop calls        *)
(***************************************************************************)

\* info.copy() with the key "dependencies" set when the path has a record
FileWithDependencies(d, p) ==
    IF Has(d.dependencies, p)
    THEN [Serialize(d).files.val[p] EXCEPT !.dependencies = CopyOf(d.dependencies.val[p])]
    ELSE Serialize(d).files.val[p]

get_files_by_dir(disk, d, f, directory) ==
    LET abs_dir == Abspath(directory)
        found == SelectSeq(d.files.keys, LAMBDA p : StartsWith(p, abs_dir))
    IN  IF ~Exists(disk, abs_dir)
        THEN Outcome(d, f, [status |-> "error", why |-> "not found"])
        ELSE IF found = <<>>
        THEN Outcome(d, f, [status |-> "info"])
        ELSE Outcome(d, f, [status |-> "ok",
                            files |-> [i \in 1..Len(found) |->
                                         [file |-> found[i],
                                          info |-> FileWithDependencies(d, found[i])]]])

get_all_files(d, f) ==
    IF d.files.keys = <<>>
    THEN Outcome(d, f, [status |-> "info"])
    ELSE Outcome(d, f, [status |-> "ok",
                        files |-> [i \in 1..Len(d.files.keys) |->
                                     [file |-> d.files.keys[i],
                                      info |-> FileWithDependencies(d, d.files.keys[i])]]])

\* The placeholder that generate_summary stores
GeneratedSummary == <<"This is a placeholder for a generated summary.">>

generate_summary(disk, d, f, file_path) ==
    LET abs_file_path == Abspath(file_path)
        d2 == [d EXCEPT !.files.val[abs_file_path].summary = GeneratedSummary]
    IN  IF ~Exists(disk, abs_file_path)
        THEN Outcome(d, f, [status |-> "error", why |-> "not found"])
        ELSE IF Has(d.files, abs_file_path)
        THEN Outcome(d2, save_data(d2), [status |-> "ok", file |-> abs_file_path,
                                         summary |-> GeneratedSummary])
        ELSE Outcome(d, f, [status |-> "ok", file |-> abs_file_path,
                            summary |-> GeneratedSummary])

\* get_capabilities: the command names under "commands", in every category
CapabilityCommands ==
    {"rank_file", "delete_file", "generate_summary",
     "get_file", "get_files_by_dir", "get_all_files",
     "update_dependencies", "scan_all_dependencies", "get_dependencies",
     "get_dependents", "visualize_dependencies",
     "get_capabilities", "get_command_help"}

get_capabilities(d, f) ==
    Outcome(d, f, [status |-> "ok", commands |-> CapabilityCommands])

\* get_command_help: every command of get_capabilities has help
get_command_help(d, f, command) ==
    IF command \in CapabilityCommands
    THEN Outcome(d, f, [status |-> "ok", command |-> command])
    ELSE Outcome(d, f, [status |-> "error", why |-> "no help"])

(***************************************************************************)
(* process_command                                                         *)
(*                                                                         *)
(* The input line is what json.loads makes of it: "invalid" when it raises *)
(* JSONDecodeError, "list" for valid JSON that is no object, or "object"   *)
(* with the dict `data`.  A dict is the function from its keys to their    *)
(* values; the value of "params" is wrapped, so that isinstance(params,    *)
(* dict) can be asked of it.                                               *)
(***************************************************************************)

JsonDict(dict) == [isdict |-> TRUE, dict |-> dict]
JsonNull == [isdict |-> FALSE]

\* params = command_data.get("params", {})
Params(command_data) ==
    IF "params" \in DOMAIN command_data THEN command_data["params"] ELSE JsonDict(<<>>)

\* Lines 1505-1512: the action; "" stands for None
ActionOf(command_data) ==
    LET params == Params(command_data)
        in_params == IF params.isdict
                     THEN (IF "action" \in DOMAIN params.dict THEN params.dict["action"] ELSE "")
                     ELSE ""
        action == IF in_params # "" THEN in_params
                  ELSE IF "action" \in DOMAIN command_data THEN command_data["action"]
                  ELSE ""
    IN  IF action = "" /\ "method" \in DOMAIN command_data
        THEN command_data["method"]
        ELSE action

\* `params.get(k) if isinstance(params, dict) else command_data.get(k)`: the
\* dict a legacy handler reads its parameters from
Arguments(command_data) ==
    IF Params(command_data).isdict THEN Params(command_data).dict ELSE command_data

\* `not args.get(k)`: the key is missing or its value is falsy (the paths
\* and names sent are non-empty; a number is falsy when it is 0)
Missing(args, k) ==
    IF k \in DOMAIN args
    THEN (IF k = "rank" THEN args[k].twice = 0 ELSE FALSE)
    ELSE TRUE

\* The JSON-RPC error codes
InvalidParams == -32602
MethodNotFound == -32601
InternalError == -32603
ParseError == -32700

\* What a branch of process_command leaves: the manager's state, and the
\* `result` or the `error` it has set ("raised" when an exception escapes)
Branch(d, f, x, kind, body) ==
    [data |-> d, file |-> f, exit_requested |-> x, kind |-> kind, body |-> body]

Called(out, x) == Branch(out.data, out.file, x, "result", out.ret)

\* The `if not file_path: error = ... else: result = ...` of a handler
\* whose only parameter is file_path
OnFilePath(d, f, x, args, out) ==
    IF Missing(args, "file_path")
    THEN Branch(d, f, x, "error", InvalidParams)
    ELSE Called(out, x)

\* The max_depth a handler passes to visualize_dependencies
MaxDepthOf(args) == IF "max_depth" \in DOMAIN args THEN args["max_depth"] ELSE 3

\* The branch `elif action == "tools/call"`
ToolsCall(disk, d, f, x, params) ==
    IF ~params.isdict THEN Branch(d, f, x, "raised", InternalError)
    ELSE
    LET tool_name == IF "name" \in DOMAIN params.dict THEN params.dict["name"] ELSE ""
        tool_params == IF "parameters" \in DOMAIN params.dict
                       THEN params.dict["parameters"] ELSE <<>>
    IN  CASE tool_name = "rank_file" ->
               IF Missing(tool_params, "file_path") \/ ~("rank" \in DOMAIN tool_params)
               THEN Branch(d, f, x, "error", InvalidParams)
               ELSE IF tool_params["rank"].type \notin {"int", "bool"}
               THEN Branch(d, f, x, "error", InvalidParams)
               ELSE Called(rank_file(disk, d, f, tool_params["file_path"],
                                     tool_params["rank"], None), x)
          [] tool_name = "update_dependencies" ->
               OnFilePath(d, f, x, tool_params,
                          update_dependencies(disk, d, f, tool_params["file_path"]))
          [] tool_name = "get_file" ->
               OnFilePath(d, f, x, tool_params, get_file(d, f, tool_params["file_path"]))
          [] tool_name = "get_all_files" -> Called(get_all_files(d, f), x)
          [] tool_name = "visualize_dependencies" ->
               OnFilePath(d, f, x, tool_params,
                          visualize_dependencies(disk, d, f, tool_params["file_path"],
                                                 MaxDepthOf(tool_params)))
          [] OTHER -> Branch(d, f, x, "error", MethodNotFound)

\* The actions that have a legacy direct handler
LegacyActions ==
    {"rank_file", "get_files_by_dir", "generate_summary", "update_dependencies",
     "scan_all_dependencies", "get_dependencies", "get_dependents",
     "visualize_dependencies", "get_capabilities", "get_command_help"}

\* The legacy direct action handlers and the final `else`
LegacyHandler(disk, d, f, x, action, args) ==
    CASE action = "rank_file" ->
           IF Missing(args, "file_path") \/ Missing(args, "rank")
           THEN Branch(d, f, x, "error", InvalidParams)
           ELSE Called(rank_file(disk, d, f, args["file_path"], args["rank"], None), x)
      [] action = "get_files_by_dir" ->
           IF Missing(args, "directory")
           THEN Branch(d, f, x, "error", InvalidParams)
           ELSE Called(get_files_by_dir(disk, d, f, args["directory"]), x)
      [] action = "generate_summary" ->
           OnFilePath(d, f, x, args, generate_summary(disk, d, f, args["file_path"]))
      [] action = "update_dependencies" ->
           OnFilePath(d, f, x, args, update_dependencies(disk, d, f, args["file_path"]))
      [] action = "scan_all_dependencies" -> Called(scan_all_dependencies(disk, d, f), x)
      [] action = "get_dependencies" ->
           OnFilePath(d, f, x, args, get_file_dependencies(disk, d, f, args["file_path"]))
      [] action = "get_dependents" ->
           OnFilePath(d, f, x, args, get_file_dependents(disk, d, f, args["file_path"]))
      [] action = "visualize_dependencies" ->
           OnFilePath(d, f, x, args,
                      visualize_dependencies(disk, d, f, args["file_path"], MaxDepthOf(args)))
      [] action = "get_capabilities" -> Called(get_capabilities(d, f), x)
      [] action = "get_command_help" ->
           IF Missing(args, "command")
           THEN Branch(d, f, x, "error", InvalidParams)
           ELSE Called(get_command_help(d, f, args["command"]), x)
      [] OTHER -> Branch(d, f, x, "error", MethodNotFound)

\* The chain of `if action == ...` branches
Dispatch(disk, d, f, x, command_data) ==
    LET action == ActionOf(command_data)
        params == Params(command_data)
    IN  CASE action = "initialize" ->
               IF params.isdict
               THEN Branch(d, f, x, "result", [status |-> "ok", serverInfo |-> TRUE])
               ELSE Branch(d, f, x, "raised", InternalError)
          [] action = "tools/list" -> Branch(d, f, x, "result", [status |-> "ok", tools |-> TRUE])
          [] action = "shutdown" -> Branch(d, f, x, "result", [status |-> "empty"])
          [] action = "exit" -> Branch(d, f, TRUE, "result", [status |-> "empty"])
          [] action = "tools/call" -> ToolsCall(disk, d, f, x, params)
          [] OTHER -> LegacyHandler(disk, d, f, x, action, Arguments(command_data))

\* The "id" of a response: none, null, or the request's id
NoId == [key |-> FALSE, null |-> FALSE, value |-> 0]
NullId == [key |-> TRUE, null |-> TRUE, value |-> 0]
IdOf(command_data) ==
    IF "id" \in DOMAIN command_data
    THEN [key |-> TRUE, null |-> FALSE, value |-> command_data["id"]]
    ELSE NoId

\* The methods that start with "notifications/"
Notifications == {"notifications/initialized"}

\* The response of process_command, None for a notification
NoResponse == [kind |-> "none"]
Response(id, branch) ==
    IF branch.kind = "raised"
    THEN [kind |-> "error", id |-> NullId, code |-> InternalError]
    ELSE IF branch.kind = "error"
    THEN [kind |-> "error", id |-> id, code |-> branch.body]
    ELSE [kind |-> "result", id |-> id, result |-> branch.body]

Processed(branch, response) ==
    [data |-> branch.data, file |-> branch.file,
     exit_requested |-> branch.exit_requested, ret |-> response]

process_command(disk, d, f, x, command) ==
    IF command.json = "invalid"
    THEN Processed(Branch(d, f, x, "error", ParseError),
                   [kind |-> "error", id |-> NullId, code |-> ParseError])
    ELSE IF command.json # "object"
    THEN Processed(Branch(d, f, x, "raised", InternalError),
                   Response(NullId, Branch(d, f, x, "raised", InternalError)))
    ELSE IF /\ "id" \notin DOMAIN command.data
            /\ "method" \in DOMAIN command.data
            /\ command.data["method"] \in Notifications
    THEN Processed(Branch(d, f, x, "none", 0), NoResponse)
    ELSE Processed(Dispatch(disk, d, f, x, command.data),
                   Response(IdOf(command.data), Dispatch(disk, d, f, x, command.data)))

(***************************************************************************)
(* The state machine of one FileRankManager over one workspace             *)
(***************************************************************************)

VARIABLES
    world,   \* the workspace the manager runs in
    disk,    \* the paths that exist in the file system
    data,    \* self.data
    file,    \* the content of the data file (file_rankings.json)
    call,    \* the operation called last and its arguments
    ret,     \* what it returned
    steps,   \* the number of steps taken
    before,  \* self.data when the operation called last was called
    tree,    \* the state of a build_tree traversal observed step by step
    exit_requested,  \* self.exit_requested
    loop,    \* main(): whether the command loop was left, the responses printed
    writers  \* the processes that share the data file, each with its own self.data

vars ==
    <<world, disk, data, file, call, ret, steps, before, tree, exit_requested, loop, writers>>

\* The number of operations (and file system changes) in one run
MaxSteps == 3

\* The number of paths of the workspace that may be missing at one time
MaxMissing == 1

\* The arguments the operations are called with
RankArgs == {PyInt(0), PyInt(1), PyInt(2), PyInt(11), PyNum("float", 5)}
SummaryArgs == {None}
DepthArgs == {0, 3}

Paths == World(world)

\* main() is not running
NoLoop == [running |-> FALSE]

\* No other process shares the data file
NoWriters == <<>>

\* The data file does not exist
NoFile == [exists |-> FALSE]

\* No traversal is observed step by step
NoTree == [done |-> TRUE]

Init ==
    /\ world \in Worlds
    /\ disk = World(world)
    /\ data = EmptyData
    /\ file = NoFile
    /\ call = [op |-> "__init__"]
    /\ ret = [status |-> "ok"]
    /\ steps = 0
    /\ exit_requested = FALSE
    /\ loop = NoLoop
    /\ writers = NoWriters
    /\ before = EmptyData
    /\ tree = NoTree

\* An operation was called and has returned
Returns(c, out) ==
    /\ steps < MaxSteps
    /\ steps' = steps + 1
    /\ call' = c
    /\ before' = data
    /\ data' = out.data
    /\ file' = out.file
    /\ ret' = out.ret
    /\ UNCHANGED <<world, disk, tree, exit_requested, loop, writers>>

RankFile ==
    \E p \in Paths, r \in RankArgs, s \in SummaryArgs :
        Returns([op |-> "rank_file", file_path |-> p, rank |-> r, summary |-> s],
                rank_file(disk, data, file, p, r, s))

GetFile ==
    \E p \in Paths :
        Returns([op |-> "get_file", file_path |-> p], get_file(data, file, p))

DeleteFile ==
    \E p \in Paths :
        Returns([op |-> "delete_file", file_path |-> p], delete_file(data, file, p))

UpdateDependencies ==
    \E p \in Paths :
        Returns([op |-> "update_dependencies", file_path |-> p],
                update_dependencies(disk, data, file, p))

ScanAllDependencies ==
    Returns([op |-> "scan_all_dependencies"], scan_all_dependencies(disk, data, file))

GetFileDependencies ==
    \E p \in Paths :
        Returns([op |-> "get_file_dependencies", file_path |-> p],
                get_file_dependencies(disk, data, file, p))

GetFileDependents ==
    \E p \in Paths :
        Returns([op |-> "get_file_dependents", file_path |-> p],
                get_file_dependents(disk, data, file, p))

VisualizeDependencies ==
    \E p \in Paths, m \in DepthArgs :
        Returns([op |-> "visualize_dependencies", file_path |-> p, max_depth |-> m],
                visualize_dependencies(disk, data, file, p, m))

\* The file system changes under the manager: a file or an empty directory
\* is removed, or one is created (a file with the content the model gives it)
RemoveFromDisk ==
    \E p \in disk :
        /\ steps < MaxSteps
        /\ Cardinality(Paths \ disk) < MaxMissing
        /\ \A q \in disk : Dirname(q) # p
        /\ disk' = disk \ {p}
        /\ steps' = steps + 1
        /\ UNCHANGED <<world, data, file, call, ret, before, tree, exit_requested, loop, writers>>

CreateOnDisk ==
    \E p \in Paths \ disk :
        /\ steps < MaxSteps
        /\ Dirname(p) = Cwd \/ Dirname(p) \in disk
        /\ disk' = disk \cup {p}
        /\ steps' = steps + 1
        /\ UNCHANGED <<world, data, file, call, ret, before, tree, exit_requested, loop, writers>>

Next ==
    \/ RankFile
    \/ GetFile
    \/ DeleteFile
    \/ UpdateDependencies
    \/ ScanAllDependencies
    \/ GetFileDependencies
    \/ GetFileDependents
    \/ VisualizeDependencies
    \/ RemoveFromDisk
    \/ CreateOnDisk

Spec == Init /\ [][Next]_vars

(***************************************************************************)
(* The manager started on a data file that an earlier run has written      *)
(***************************************************************************)

\* What an earlier run leaves behind after rank_file(p), rank_file(q) and
\* update_dependencies(q) on the complete workspace
EarlierRun(w, p, q) ==
    LET first == rank_file(World(w), EmptyData, NoFile, p, PyInt(1), None)
        second == rank_file(World(w), first.data, first.file, q, PyInt(2), None)
    IN  update_dependencies(World(w), second.data, second.file, q)

\* load_data: self.data is the content of the data file; the earlier run
\* ranked two files of which the second imports the first
InitStored ==
    /\ world \in Worlds
    /\ disk = World(world)
    /\ \E p \in World(world), q \in World(world) :
          /\ p # q
          /\ Contains(EarlierRun(world, p, q).ret.imports, p)
          /\ data = EarlierRun(world, p, q).file
          /\ file = EarlierRun(world, p, q).file
          /\ before = EarlierRun(world, p, q).file
    /\ call = [op |-> "__init__"]
    /\ ret = [status |-> "ok"]
    /\ steps = 0
    /\ exit_requested = FALSE
    /\ loop = NoLoop
    /\ writers = NoWriters
    /\ tree = NoTree

SpecStored == InitStored /\ [][Next]_vars

(***************************************************************************)
(* The command loop: main() reads one command per line and answers it      *)
(***************************************************************************)

\* The number of input lines in one run
MaxLines == 2

\* The id of a request that carries one
RequestId == 7

\* The parameter sets a client sends with an action: all of its parameters,
\* or none
ParametersOf(action) ==
    CASE action = "rank_file" ->
           {("file_path" :> p) @@ ("rank" :> r) :
               p \in {APy, BPy}, r \in {PyInt(3), PyInt(0), PyNum("float", 5)}}
      [] action \in {"delete_file", "generate_summary", "get_file", "update_dependencies",
                     "get_dependencies", "get_dependents", "visualize_dependencies"} ->
           {("file_path" :> p) : p \in {APy, BPy}}
      [] action = "get_files_by_dir" -> {("directory" :> Cwd)}
      [] action = "get_command_help" -> {("command" :> "rank_file")}
      [] OTHER -> {}

\* The action and method names that clients send
ActionNames ==
    CapabilityCommands \cup {"initialize", "tools/list", "tools/call", "shutdown", "exit",
                             "frobnicate"}

\* The forms of a command: flat (the parameters beside "action"), flat with
\* "params": null, the parameters under "params", JSON-RPC with "method" and
\* "id", and a tools/call request
Flat(action, parameters) ==
    [json |-> "object", data |-> ("action" :> action) @@ parameters]
FlatNullParams(action, parameters) ==
    [json |-> "object", data |-> ("action" :> action) @@ ("params" :> JsonNull) @@ parameters]
Nested(action, parameters) ==
    [json |-> "object", data |-> ("action" :> action) @@ ("params" :> JsonDict(parameters))]
Rpc(method, parameters) ==
    [json |-> "object",
     data |-> ("id" :> RequestId) @@ ("method" :> method) @@ ("params" :> JsonDict(parameters))]
Tool(name, parameters) ==
    Rpc("tools/call", ("name" :> name) @@ ("parameters" :> parameters))

Commands ==
    UNION {
        {Flat(a, <<>>), Nested(a, <<>>), Rpc(a, <<>>), Tool(a, <<>>)}
        \cup UNION {{Flat(a, ps), FlatNullParams(a, ps), Nested(a, ps), Rpc(a, ps), Tool(a, ps)} :
                       ps \in ParametersOf(a)}
        : a \in ActionNames}
    \cup {[json |-> "invalid"], [json |-> "list"],
          [json |-> "object", data |-> ("method" :> "notifications/initialized")],
          [json |-> "object",
           data |-> ("id" :> RequestId) @@ ("method" :> "tools/call") @@ ("params" :> JsonNull)]}

\* `if not line: continue`: a line that is empty after strip()
EmptyLine == [json |-> "empty"]

\* main() has entered the loop and has printed nothing
LoopStart == [running |-> TRUE, left |-> FALSE, stdout |-> <<>>]

InitCommand ==
    /\ world = "py"
    /\ disk = World(world)
    /\ data = EmptyData
    /\ file = NoFile
    /\ call = [op |-> "__init__"]
    /\ ret = [status |-> "ok"]
    /\ steps = 0
    /\ exit_requested = FALSE
    /\ loop = LoopStart
    /\ writers = NoWriters
    /\ before = EmptyData
    /\ tree = NoTree

\* Sensitivity of C30: the loop without `if manager.exit_requested: break`
AnsweredWithoutBreak(l, response, x) ==
    IF response = NoResponse THEN l ELSE [l EXCEPT !.stdout = Append(@, response)]

\* Lines 1841-1857: a result of None is skipped (`continue`); any other is
\* printed, and after it the loop is left if exit_requested is set
Answered(l, response, x) ==
    IF response = NoResponse THEN l
    ELSE [l EXCEPT !.stdout = Append(@, response), !.left = x]

\* One round of `for line in sys.stdin`: an empty line is skipped, any other
\* is processed and answered
ProcessCommand ==
    /\ loop.running
    /\ ~loop.left
    /\ steps < MaxLines
    /\ \E command \in Commands \cup {EmptyLine} :
          IF command = EmptyLine
          THEN /\ call' = [op |-> "skip", command |-> command]
               /\ before' = data
               /\ UNCHANGED <<data, file, exit_requested, ret, loop>>
          ELSE LET out == process_command(disk, data, file, exit_requested, command)
               IN  /\ call' = [op |-> "process_command", command |-> command]
                   /\ before' = data
                   /\ data' = out.data
                   /\ file' = out.file
                   /\ exit_requested' = out.exit_requested
                   /\ ret' = out.ret
                   /\ loop' = Answered(loop, out.ret, out.exit_requested)
    /\ steps' = steps + 1
    /\ UNCHANGED <<world, disk, tree, writers>>

NextCommand == ProcessCommand

SpecCommand == InitCommand /\ [][NextCommand]_vars

(***************************************************************************)
(* visualize_dependencies observed step by step                            *)
(*                                                                         *)
(* The manager is constructed over a data file that an earlier run saved:  *)
(* load_data reads the rankings and the dependency records from it.  The   *)
(* records are drawn from the graphs over the files of the workspace (the  *)
(* files had the contents that give these imports when they were scanned). *)
(* visualize_dependencies is then called for a file that has a record, and *)
(* build_tree runs one step at a time until the call returns.              *)
(***************************************************************************)

\* The files of the graphs, in the order of their records in the data file
TreePaths == <<LibRs, ParserRs, UtilRs>>

\* The length of a stored imports list
MaxImports == 2

\* The arguments max_depth
TreeDepths == {-1, 0, 1, 5}

NoDuplicates(list) == \A i, j \in 1..Len(list) : list[i] = list[j] => i = j

\* The imports of a record as detect_dependencies returns them: sorted and
\* without duplicates
ImportLists ==
    {SortedStrings(S) : S \in {T \in SUBSET ToSet(TreePaths) : Cardinality(T) <= MaxImports}}

\* For each file: whether it has a record, and the imports of the record
RecordChoices ==
    [ToSet(TreePaths) ->
        {[has |-> FALSE, imports |-> <<>>]} \cup
        {[has |-> TRUE, imports |-> l] : l \in ImportLists}]

\* self.data["dependencies"] as load_data reads it
LoadedDependencies(c) ==
    [keys |-> SelectSeq(TreePaths, LAMBDA p : c[p].has),
     val  |-> [p \in {q \in ToSet(TreePaths) : c[q].has} |->
                 [imports |-> c[p].imports, possible_imports |-> <<>>]]]

\* self.data["files"] as load_data reads it: no rankings, or util.rs ranked
\* 1 and lib.rs ranked 2
LoadedFiles ==
    {EmptyDict,
     DictSet(DictSet(EmptyDict, UtilRs, FileInfo(PyInt(1), DefaultSummary)),
             LibRs, FileInfo(PyInt(2), DefaultSummary))}

Running == [status |-> "running"]

InitTree ==
    /\ world = "rust"
    /\ disk = World(world)
    /\ \E fs \in LoadedFiles, c \in RecordChoices :
          data = [files |-> fs, dependencies |-> LoadedDependencies(c)]
    /\ file = save_data(data)
    /\ before = data
    /\ steps = 0
    /\ exit_requested = FALSE
    /\ loop = NoLoop
    /\ writers = NoWriters
    /\ \E p \in ToSet(TreePaths), m \in TreeDepths :
          /\ Has(data.dependencies, p)
          /\ call = [op |-> "visualize_dependencies", file_path |-> p, max_depth |-> m]
          /\ tree = TreeStart(data.files, data.dependencies, p, m)
    /\ ret = Running

\* One step of build_tree
BuildTreeStep ==
    /\ ~tree.done
    /\ tree' = TreeStep(tree)
    /\ UNCHANGED <<world, disk, data, file, call, ret, steps, before, exit_requested, loop, writers>>

\* build_tree has returned: the rest of visualize_dependencies
VisualizeReturns ==
    /\ tree.done
    /\ ret = Running
    /\ LET out == Visualized(data, file, call.file_path, call.max_depth, tree)
       IN  /\ data' = out.data
           /\ file' = out.file
           /\ ret' = out.ret
    /\ steps' = steps + 1
    /\ UNCHANGED <<world, disk, call, before, tree, exit_requested, loop, writers>>

NextTree ==
    \/ BuildTreeStep
    \/ VisualizeReturns

\* A call that is running takes its next step
SpecTree == InitTree /\ [][NextTree]_vars /\ WF_vars(NextTree)

(***************************************************************************)
(* The cross matching of detect_dependencies on its own: the output of a   *)
(* language handler and the list of tracked files are drawn from lists of  *)
(* paths and tokens, and lines 93-129 are applied to them.                 *)
(***************************************************************************)

\* The length of the lists certain_dependencies and possible_dependencies
MaxListLen == 2

TokDotted == <<"p", "k", "g", ".", "u", "t", "i", "l">>
TokPathStyle == <<".", ".", "/", "l", "i", "b", ".", "r", "s">>

CrossTokens == {TokLib, TokCrateParser, TokStdIo, TokDotted, TokPathStyle}

ListsOver(S, n) == UNION {[1..k -> S] : k \in 0..n}

TrackedLists == {l \in ListsOver(ToSet(TreePaths), 3) : NoDuplicates(l)}

InitCross ==
    /\ world = "rust"
    /\ disk = World(world)
    /\ data = EmptyData
    /\ file = NoFile
    /\ before = EmptyData
    /\ steps = 0
    /\ exit_requested = FALSE
    /\ loop = NoLoop
    /\ writers = NoWriters
    /\ tree = NoTree
    /\ \E certain \in ListsOver({LibRs, UtilRs}, MaxListLen),
          possible \in ListsOver(CrossTokens, MaxListLen),
          tracked_files \in TrackedLists :
          call = [op |-> "detect_dependencies", out |-> Lists(certain, possible),
                  tracked_files |-> tracked_files]
    /\ ret = Running

CrossReferenceReturns ==
    /\ ret = Running
    /\ ret' = [status |-> "ok", result |-> CrossReference(call.out, call.tracked_files)]
    /\ steps' = steps + 1
    /\ UNCHANGED <<world, disk, data, file, call, before, tree, exit_requested, loop, writers>>

NextCross == CrossReferenceReturns

SpecCross == InitCross /\ [][NextCross]_vars

(***************************************************************************)
(* delete_file                                                             *)
(***************************************************************************)

\* The path has no record of its own and no record lists it as an import
Purged(d, p) ==
    /\ ~Has(d.dependencies, p)
    /\ \A q \in DOMAIN d.dependencies.val : ~Contains(d.dependencies.val[q].imports, p)

\* Some record other than the path's own lists the path as an import
ImportedBySomeRecord(d, p) ==
    \E q \in DOMAIN d.dependencies.val : Contains(d.dependencies.val[q].imports, p)

\* C1, as stated: in every reachable state and for every path p, ranked or
\* not, after delete_file(p) p has no dependency record of its own and no
\* record's imports list contains p.
C1_DeletePurgesEveryPath ==
    \A p \in Paths : Purged(delete_file(data, file, p).data, p)

\* C1, for ranked paths: in every reachable state and for every path p that
\* has a ranking, after delete_file(p) p has no dependency record of its own
\* and no record's imports list contains p; for a path without a ranking
\* delete_file returns an error and leaves the store as it is.
C1_DeletePurgesRankedPath ==
    \A p \in Paths :
        LET out == delete_file(data, file, p)
        IN  IF Has(data.files, p)
            THEN out.ret.status = "success" /\ Purged(out.data, p)
            ELSE out.ret.status = "error" /\ out.data = data /\ out.file = file

\* delete_file has removed a ranked path that a record of another file listed
\* as an import, and that record is still there
C1_Witness ==
    /\ call.op = "delete_file"
    /\ ret.status = "success"
    /\ ImportedBySomeRecord(before, call.file_path)
    /\ \E q \in DOMAIN data.dependencies.val :
          /\ Has(before.dependencies, q)
          /\ Contains(before.dependencies.val[q].imports, call.file_path)
    /\ Purged(data, call.file_path)

\* C2: delete_file is idempotent on the store: in every reachable state and
\* for every path p, calling delete_file(p) twice in a row leaves the same
\* rankings and dependency records (and the same data file) as calling it
\* once.
C2_DeleteIdempotent ==
    \A p \in Paths :
        LET once == delete_file(data, file, p)
            twice == delete_file(once.data, once.file, p)
        IN  /\ twice.data = once.data
            /\ twice.file = once.file

\* delete_file has removed a ranking and a second call would return the
\* error and change nothing
C2_Witness ==
    /\ call.op = "delete_file"
    /\ ret.status = "success"
    /\ before # data
    /\ delete_file(data, file, call.file_path).ret.status = "error"
    /\ delete_file(data, file, call.file_path).data = data

(***************************************************************************)
(* get_file_dependents                                                     *)
(***************************************************************************)

\* The files whose record lists p as an import
DirectDependents(d, p) ==
    {q \in DOMAIN d.dependencies.val : Contains(d.dependencies.val[q].imports, p)}

\* C3: in every reachable state and for every path p that exists on disk,
\* get_file_dependents(p) lists exactly the files whose record has p in its
\* imports, each once, and returns 'info' if and only if there is none.
C3_DependentsAreDirect ==
    \A p \in Paths :
        Exists(disk, p) =>
            LET r == get_file_dependents(disk, data, file, p).ret
            IN  /\ r.status \in {"info", "ok"}
                /\ r.status = "info" <=> DirectDependents(data, p) = {}
                /\ r.status = "ok" =>
                      /\ {r.dependents[i].file : i \in 1..Len(r.dependents)}
                            = DirectDependents(data, p)
                      /\ Len(r.dependents) = Cardinality(DirectDependents(data, p))

\* get_file_dependents(p) has listed the one file that imports p, while p
\* itself imports that file (so p is among its own transitive dependents)
C3_Witness ==
    /\ call.op = "get_file_dependents"
    /\ ret.status = "ok"
    /\ Len(ret.dependents) = 1
    /\ ret.dependents[1].file # call.file_path
    /\ Has(data.dependencies, call.file_path)
    /\ Contains(data.dependencies.val[call.file_path].imports, ret.dependents[1].file)

(***************************************************************************)
(* visualize_dependencies                                                  *)
(***************************************************************************)

\* The stepwise run returns what the call as a whole returns
StepwiseMatchesCall ==
    ret.status = "ok" =>
        /\ ret = visualize_dependencies(disk, before, file, call.file_path,
                                        call.max_depth).ret
        /\ data = visualize_dependencies(disk, before, file, call.file_path,
                                         call.max_depth).data

\* The stored imports of a file (none when it has no record)
ImportsOf(p) ==
    IF Has(data.dependencies, p) THEN data.dependencies.val[p].imports ELSE <<>>

\* The lines of the returned dependency_tree that show the file p
LinesFor(p) ==
    {i \in 1..Len(ret.dependency_tree) : ret.dependency_tree[i].path = Relpath(p)}

\* The lines of the returned dependency_tree that show p under the file n
LinesUnder(n, p) ==
    {i \in LinesFor(p) : ret.dependency_tree[i].parent = n}

\* C4, as stated: when visualize_dependencies has returned, every dependency
\* of every expanded node has a line under that node, also when it was
\* already visited when the node's loop came to it (then it is a leaf line).
C4_VisitedDependencyShown ==
    ret.status = "ok" =>
        \A i \in 1..Len(ret.dependency_tree) :
            ~ret.dependency_tree[i].leaf =>
                \A dep \in ToSet(ImportsOf(Abspath(ret.dependency_tree[i].path))) :
                    LinesUnder(Abspath(ret.dependency_tree[i].path), dep) # {}

\* C5: build_tree expands no file twice in one call, and every call of
\* visualize_dependencies returns, for every graph (self-edges and cycles
\* included) and every max_depth.
C5_ExpandsOnceAndTerminates ==
    /\ [](NoDuplicates(tree.expanded))
    /\ <>(ret.status = "ok")

\* The call has returned for a graph in which every file imports itself and
\* one other file (so the three files lie on a cycle), all three expanded
C5_Witness ==
    /\ ret.status = "ok"
    /\ call.max_depth = 5
    /\ Len(tree.expanded) = 3
    /\ \A p \in ToSet(TreePaths) :
          /\ Contains(ImportsOf(p), p)
          /\ Len(ImportsOf(p)) = 2

\* visualize_dependencies(A, 5) is called, or has returned, where the record
\* of A imports only B and the record of B imports only A
TwoFileCycle ==
    IF call.max_depth = 5 /\ Len(ImportsOf(call.file_path)) = 1
    THEN /\ ImportsOf(call.file_path)[1] # call.file_path
         /\ ImportsOf(ImportsOf(call.file_path)[1]) = <<call.file_path>>
    ELSE FALSE

\* The call for a two-file cycle has returned with n lines for B, `expanded`
\* of them of an expanded node under A and the others leaves
ReturnedForB(n, expanded) ==
    IF TwoFileCycle /\ ret.status = "ok"
    THEN /\ Cardinality(LinesFor(ImportsOf(call.file_path)[1])) = n
         /\ Cardinality({i \in LinesFor(ImportsOf(call.file_path)[1]) :
                            /\ ~ret.dependency_tree[i].leaf
                            /\ ret.dependency_tree[i].parent = call.file_path})
               = expanded
    ELSE FALSE

RECURSIVE Pow2(_)
Pow2(n) == IF n = 0 THEN 1 ELSE 2 * Pow2(n - 1)

\* The depth a line is drawn at: build_tree passes prefix + new_prefix on, so
\* the prefix of a line at depth n has 2^n - 1 segments
DrawnAt(line, n) == Len(line.prefix) = Pow2(n) - 1

C8_CrossMatchingMonotone ==
    ret.status = "ok" =>
        /\ ToSet(call.out.certain) \subseteq ToSet(ret.result.imports)
        /\ ToSet(ret.result.possible_imports) \subseteq ToSet(call.out.possible)
        /\ ToSet(ret.result.imports) \ ToSet(call.out.certain)
              \subseteq ToSet(call.tracked_files)

\* Cross matching has promoted one possible dependency to a tracked file that
\* was not a certain dependency, and has left another one possible
C8_Witness ==
    /\ ret.status = "ok"
    /\ call.out.certain # <<>>
    /\ ToSet(ret.result.imports) \ ToSet(call.out.certain) # {}
    /\ ret.result.possible_imports # <<>>
    /\ ToSet(ret.result.possible_imports) # ToSet(call.out.possible)

(***************************************************************************)
(* The language handlers                                                   *)
(***************************************************************************)

\* C9: whenever lib.rs and parser.rs are both tracked and lib.rs (which
\* contains `use crate::parser::Parser;`) exists, update_dependencies(lib.rs)
\* returns imports that contain parser.rs and possible_imports that do not
\* contain the token.
C9_UseCratePromoted ==
    (world = "rust" /\ Has(data.files, LibRs) /\ Has(data.files, ParserRs)
        /\ Exists(disk, LibRs) /\ Exists(disk, ParserRs)) =>
        LET r == update_dependencies(disk, data, file, LibRs).ret
        IN  /\ r.status = "success"
            /\ Contains(r.imports, ParserRs)
            /\ ~Contains(r.possible_imports, TokCrateParser)

\* C10: whenever x.ts (which contains `import {f} from './y'`) exists, no
\* file y.ts, y.js, y.jsx, y.tsx or y.json does, and the directory y holds
\* index.ts, update_dependencies(x.ts) returns imports that contain y/index.ts.
C10_IndexFileResolved ==
    (world = "ts" /\ Exists(disk, XTs) /\ Exists(disk, YIndexTs)) =>
        LET r == update_dependencies(disk, data, file, XTs).ret
        IN  /\ r.status = "success"
            /\ Contains(r.imports, YIndexTs)

(***************************************************************************)
(* Scanning: update_dependencies and scan_all_dependencies                 *)
(***************************************************************************)

\* C11: a.py holds `import b` and b.py stands beside it: whatever files are
\* tracked, update_dependencies(a.py) succeeds and records imports = [b.py]
\* and possible_imports = [].
C11_LocalImportResolved ==
    (world = "py" /\ Exists(disk, APy) /\ Exists(disk, BPy)) =>
        LET out == update_dependencies(disk, data, file, APy)
        IN  /\ out.ret.status = "success"
            /\ out.ret.imports = <<BPy>>
            /\ out.ret.possible_imports = <<>>
            /\ out.data.dependencies.val[APy]
                  = [imports |-> <<BPy>>, possible_imports |-> <<>>]

\* update_dependencies(a.py) has returned while b.py and another file were
\* tracked, and a.py's record holds b.py alone
C11_Witness ==
    /\ call.op = "update_dependencies"
    /\ call.file_path = APy
    /\ ret.status = "success"
    /\ Exists(disk, BPy)
    /\ Len(data.files.keys) = 2
    /\ Has(data.files, BPy)
    /\ data.dependencies.val[APy] = [imports |-> <<BPy>>, possible_imports |-> <<>>]

\* Some tracked file matches the token in the cross matching
MatchedByTracked(d, tok) ==
    \E i \in 1..Len(d.files.keys) : MatchesTracked(tok, d.files.keys[i])

\* C12 as stated: main.cpp holds `#include <vector>` and `#include "util.h"`
\* and util.h is in no searched directory: update_dependencies(main.cpp)
\* yields possible_imports containing "vector" and "util.h", and imports = [].
C12_SystemIncludeNeverImported ==
    (world = "cpp" /\ Exists(disk, MainCpp)) =>
        LET r == update_dependencies(disk, data, file, MainCpp).ret
        IN  /\ Contains(r.possible_imports, TokVector)
            /\ Contains(r.possible_imports, TokUtilH)
            /\ r.imports = <<>>

\* C12 amended: the C/C++ handler leaves both includes of main.cpp possible
\* and resolves neither; update_dependencies(main.cpp) yields possible_imports
\* = ["util.h", "vector"] and imports = [] when no tracked file matches a
\* token, and otherwise moves the matched token out of possible_imports and
\* the first tracked file that matches it into imports.
C12_SystemIncludeLeftToCrossMatching ==
    (world = "cpp" /\ Exists(disk, MainCpp)) =>
        LET h == _detect_cpp_dependencies(disk, MainCpp)
            r == update_dependencies(disk, data, file, MainCpp).ret
        IN  /\ h = Lists(<<>>, <<TokVector, TokUtilH>>)
            /\ ~MatchedByTracked(data, TokUtilH)
            /\ Contains(r.possible_imports, TokUtilH)
            /\ ~MatchedByTracked(data, TokVector) =>
                  /\ r.imports = <<>>
                  /\ r.possible_imports = <<TokUtilH, TokVector>>
            /\ MatchedByTracked(data, TokVector) =>
                  /\ r.imports = <<FirstMatch(TokVector, data.files.keys)>>
                  /\ r.possible_imports = <<TokUtilH>>

\* update_dependencies(main.cpp) has returned while main.cpp alone was
\* tracked: both includes are possible imports, nothing is imported
C12_Witness ==
    /\ call = [op |-> "update_dependencies", file_path |-> MainCpp]
    /\ ret.status = "success"
    /\ data.files.keys = <<MainCpp>>
    /\ ret.imports = <<>>
    /\ ret.possible_imports = <<TokUtilH, TokVector>>

\* The orders in which the files of a set can stand in self.data["files"]
\* (rank_file appends a new path, delete_file removes one)
Orderings(S) ==
    {order \in [1..Cardinality(S) -> S] :
        \A i, j \in 1..Cardinality(S) : order[i] = order[j] => i = j}

\* The tracked files that a possible import of p matches
TrackedMatches(d, tok) == {t \in ToSet(d.files.keys) : MatchesTracked(tok, t)}

\* C13 as stated: with the same file contents, the same file system and the
\* same set of tracked paths, update_dependencies(p) produces the same
\* imports and possible_imports, in whatever order the store holds the
\* tracked paths.
C13_DeterministicInTrackedSet ==
    \A p \in Paths :
        \A order \in Orderings(ToSet(data.files.keys)) :
            detect_dependencies(disk, p, order)
                = detect_dependencies(disk, p, data.files.keys)

\* C13 amended: update_dependencies(p) run twice on the same file system and
\* the same store records the same imports and possible_imports; the result
\* is the same for every order of the same tracked paths provided no
\* possible import of p matches more than one tracked file.
C13_DeterministicInTrackedOrder ==
    \A p \in Paths :
        Exists(disk, p) =>
            LET once == update_dependencies(disk, data, file, p)
                twice == update_dependencies(disk, once.data, once.file, p)
                possible == ToSet(LanguageOutput(disk, p).possible)
            IN  /\ twice.ret = once.ret
                /\ twice.data = once.data
                /\ (\A tok \in possible : Cardinality(TrackedMatches(data, tok)) <= 1) =>
                      \A order \in Orderings(ToSet(data.files.keys)) :
                          detect_dependencies(disk, p, order)
                              = detect_dependencies(disk, p, data.files.keys)

\* update_dependencies has promoted a tracked file that stands second in the
\* store and is the only one that the token matches
C13_Witness ==
    /\ call.op = "update_dependencies"
    /\ ret.status = "success"
    /\ Len(data.files.keys) = 2
    /\ ret.imports = <<data.files.keys[2]>>
    /\ ~Contains(LanguageOutput(disk, call.file_path).certain, data.files.keys[2])
    /\ \A tok \in ToSet(LanguageOutput(disk, call.file_path).possible) :
           Cardinality(TrackedMatches(data, tok)) <= 1

\* Every path of the list exists on disk
AllExist(fs, list) == \A i \in 1..Len(list) : Exists(fs, list[i])

\* C14: right after update_dependencies(p) or scan_all_dependencies has
\* written the record of p, every path in the record's imports exists on
\* disk, the paths added by the cross matching included.
C14_ImportsExistOnDisk ==
    /\ \A p \in Paths :
          LET out == update_dependencies(disk, data, file, p)
          IN  out.ret.status = "success" =>
                  AllExist(disk, out.data.dependencies.val[p].imports)
    /\ LET out == scan_all_dependencies(disk, data, file)
       IN  out.ret.status = "success" =>
               \A i \in 1..Len(out.ret.updated_files) :
                   AllExist(disk, out.data.dependencies.val[out.ret.updated_files[i]].imports)

\* update_dependencies called on each path of the list in turn
RECURSIVE UpdateEach(_, _, _, _)
UpdateEach(fs, d, f, paths) ==
    IF paths = <<>> THEN [data |-> d, file |-> f]
    ELSE UpdateEach(fs, update_dependencies(fs, d, f, Head(paths)).data,
                    update_dependencies(fs, d, f, Head(paths)).file, Tail(paths))

\* The tracked files that exist on disk, in store order
TrackedOnDisk(fs, d) == SelectSeq(d.files.keys, LAMBDA p : Exists(fs, p))

\* C15: scan_all_dependencies leaves the store that update_dependencies on
\* each tracked file that exists on disk leaves; updated_files lists exactly
\* those files; the record of a tracked file that is missing from disk and
\* of an untracked file is unchanged.
C15_ScanAllIsUpdateOfEach ==
    LET out == scan_all_dependencies(disk, data, file)
        present == TrackedOnDisk(disk, data)
        each == UpdateEach(disk, data, file, present)
    IN  IF data.files.keys = <<>>
        THEN out.ret.status = "info" /\ out.data = data /\ out.file = file
        ELSE /\ out.ret.status = "success"
             /\ out.ret.updated_files = present
             /\ out.data = each.data
             /\ present # <<>> => out.file = each.file
             /\ DOMAIN out.data.dependencies.val
                    = (DOMAIN data.dependencies.val) \cup ToSet(present)
             /\ \A p \in DOMAIN data.dependencies.val :
                    p \notin ToSet(present) =>
                        out.data.dependencies.val[p] = data.dependencies.val[p]

\* scan_all_dependencies has scanned two tracked files, both on disk, and
\* has given each the record that update_dependencies gives it
C15_Witness ==
    /\ call.op = "scan_all_dependencies"
    /\ ret.status = "success"
    /\ Len(ret.updated_files) = 2
    /\ ret.updated_files = data.files.keys
    /\ AllExist(disk, ret.updated_files)
    /\ before.dependencies = EmptyDict
    /\ \A i \in 1..2 :
          data.dependencies.val[ret.updated_files[i]]
              = detect_dependencies(disk, ret.updated_files[i], data.files.keys)
    /\ ret.total_imports > 0

\* The handler of p fails: open() or ast.parse raises
DetectionFails(fs, p) ==
    LET handler == language_handlers(Lower(Splitext(p)[2]))
    IN  /\ handler # "none"
        /\ \/ ~Readable(fs, p)
           \/ handler = "python" /\ ~ParsesAsPython(Content(p))

\* C16: when the detection of one tracked file fails during
\* scan_all_dependencies, that file's record becomes imports = [] and
\* possible_imports = [], every other tracked file on disk is still scanned
\* and recorded, and the operation returns its success result.
C16_FailureIsolated ==
    LET out == scan_all_dependencies(disk, data, file)
        present == ToSet(TrackedOnDisk(disk, data))
    IN  \A p \in present :
            DetectionFails(disk, p) =>
                /\ out.ret.status = "success"
                /\ out.data.dependencies.val[p]
                      = [imports |-> <<>>, possible_imports |-> <<>>]
                /\ \A q \in present :
                      /\ Contains(out.ret.updated_files, q)
                      /\ out.data.dependencies.val[q]
                            = detect_dependencies(disk, q, data.files.keys)

\* scan_all_dependencies has returned success after scanning bad.py, which
\* does not parse, and then a.py, whose import it recorded
C16_Witness ==
    /\ call.op = "scan_all_dependencies"
    /\ ret.status = "success"
    /\ ret.updated_files = <<BadPy, APy>>
    /\ Exists(disk, BadPy) /\ Exists(disk, BPy)
    /\ data.dependencies.val[BadPy] = [imports |-> <<>>, possible_imports |-> <<>>]
    /\ data.dependencies.val[APy] = [imports |-> <<BPy>>, possible_imports |-> <<>>]

(***************************************************************************)
(* rank_file                                                               *)
(***************************************************************************)

\* C20: every tracked file's rank is an integer between 1 and 10; rank_file
\* with a rank outside 1..10, or for a file that is not on disk, returns an
\* error and leaves the rankings, the dependency records and the data file
\* unchanged.
C20_RankIsIntegerInRange ==
    /\ \A p \in DOMAIN data.files.val :
          /\ data.files.val[p].rank.type = "int"
          /\ ~NumLess(data.files.val[p].rank, PyInt(MinRank))
          /\ ~NumLess(PyInt(MaxRank), data.files.val[p].rank)
    /\ \A p \in Paths, r \in RankArgs :
          (\/ ~Exists(disk, p)
           \/ NumLess(r, PyInt(MinRank))
           \/ NumLess(PyInt(MaxRank), r)) =>
              /\ rank_file(disk, data, file, p, r, None).ret.status = "error"
              /\ rank_file(disk, data, file, p, r, None).data = data
              /\ rank_file(disk, data, file, p, r, None).file = file

(***************************************************************************)
(* get_file                                                                *)
(***************************************************************************)

\* C19: a successful get_file(p) reports "imported_by" if and only if some
\* record has p in its imports, and imported_by then lists exactly the files
\* of those records.
C19_ImportedByIsCurrent ==
    \A p \in Paths :
        LET r == get_file(data, file, p).ret
        IN  r.status = "ok" =>
                /\ r.info.imported_by.present <=> DirectDependents(data, p) # {}
                /\ r.info.imported_by.present =>
                       ToSet(r.info.imported_by.value) = DirectDependents(data, p)

(***************************************************************************)
(* process_command                                                         *)
(***************************************************************************)

\* C17: a command in the flat form, with "action" and the parameters at the
\* top level and no "params" field, is dispatched to the named operation
\* with those parameter values (as the same command with its parameters
\* under "params" is) and is not rejected as missing a required parameter.
C17_FlatFormDispatched ==
    \A action \in LegacyActions :
        \A parameters \in ParametersOf(action) :
            (\A k \in DOMAIN parameters : ~Missing(parameters, k)) =>
                LET flat == process_command(disk, data, file, exit_requested,
                                            Flat(action, parameters))
                    nested == process_command(disk, data, file, exit_requested,
                                              Nested(action, parameters))
                IN  /\ flat.ret.kind = "result"
                    /\ flat = nested
                    /\ action = "rank_file" =>
                          flat.data = rank_file(disk, data, file, parameters["file_path"],
                                                parameters["rank"], None).data

\* C18: no command name listed under "commands" in get_capabilities, sent
\* as the action with its required parameters, is answered with the error
\* -32601 "Unknown action".
C18_CapabilityCommandsAccepted ==
    \A action \in CapabilityCommands :
        \A parameters \in ParametersOf(action) \cup {<<>>} :
            (parameters = <<>> => ParametersOf(action) = {}) =>
                LET nested == process_command(disk, data, file, exit_requested,
                                              Nested(action, parameters))
                IN  ~(nested.ret.kind = "error" /\ nested.ret.code = MethodNotFound)

(***************************************************************************)
(* Cross matching and candidate generation                                 *)
(***************************************************************************)

\* C21: when a file p is scanned, the cross matching adds no path to p's
\* imports that is p itself: p is among the recorded imports only if the
\* language handler resolved p from p's own text.
C21_CrossMatchingSkipsScannedFile ==
    \A p \in Paths :
        LET out == update_dependencies(disk, data, file, p)
        IN  out.ret.status = "success" =>
                (Contains(out.data.dependencies.val[p].imports, p)
                    => Contains(LanguageOutput(disk, p).certain, p))

\* C22: b.py holds `import os`, a module of the standard library: the name
\* "os" yields no candidate; update_dependencies(b.py) lists it neither in
\* possible_imports nor, as a file of that stem, in imports.
C22_StandardLibraryNoCandidate ==
    (world = "py" /\ Exists(disk, BPy)) =>
        LET r == update_dependencies(disk, data, file, BPy).ret
        IN  /\ ~Contains(r.possible_imports, TokOs)
            /\ \A i \in 1..Len(r.imports) : Splitext(Basename(r.imports[i]))[1] # TokOs
            /\ ~Contains(_detect_python_dependencies(disk, BPy).possible, TokOs)

(***************************************************************************)
(* visualize_dependencies: the order of the lines and the stored lists     *)
(***************************************************************************)

\* Line i of the returned dependency_tree stands before line j under the
\* same node
SiblingsInOrder(i, j) ==
    /\ i < j
    /\ ret.dependency_tree[i].parent # None
    /\ ret.dependency_tree[i].parent = ret.dependency_tree[j].parent

\* C23: of two dependencies rendered under one node of the dependency_tree,
\* the one rendered first has the rank that is not greater, and an unranked
\* dependency is rendered after every ranked one.
C23_ChildrenAscendingByRank ==
    ret.status = "ok" =>
        \A i, j \in 1..Len(ret.dependency_tree) :
            SiblingsInOrder(i, j) =>
                LET first == ret.dependency_tree[i].importance
                    second == ret.dependency_tree[j].importance
                IN  /\ first = <<>> => second = <<>>
                    /\ (first # <<>> /\ second # <<>>) => ~NumLess(second[1], first[1])

\* The call has returned for a file whose stored imports were [parser.rs,
\* util.rs], parser.rs unranked and util.rs ranked 1: util.rs is rendered
\* before parser.rs
C23_Witness ==
    /\ ret.status = "ok"
    /\ Has(before.files, UtilRs) /\ ~Has(before.files, ParserRs)
    /\ before.dependencies.val[call.file_path].imports = <<ParserRs, UtilRs>>
    /\ \E i, j \in 1..Len(ret.dependency_tree) :
          /\ SiblingsInOrder(i, j)
          /\ ret.dependency_tree[i].parent = call.file_path
          /\ ret.dependency_tree[i].path = Relpath(UtilRs)
          /\ ret.dependency_tree[j].path = Relpath(ParserRs)
          /\ ret.dependency_tree[j].importance = <<>>

(***************************************************************************)
(* The data file and the store                                             *)
(***************************************************************************)

\* Sensitivity of C25: a manager that starts from the empty structure
\* whatever the data file holds
LoadDataFileIgnored(f) == EmptyData

\* load_data: the content of the data file, or the empty structure when the
\* file does not exist
load_data(f) == IF f = NoFile THEN EmptyData ELSE f

\* C24: after every operation has returned, the data file holds the store:
\* load_data on it gives self.data as it stands in memory.
C24_DataFileEqualsStore == load_data(file) = Serialize(data)

\* C26: visualize_dependencies changes nothing: once it has returned, the
\* rankings and every record are as they were when it was called, the order
\* of every imports and possible_imports list included, and
\* get_file_dependencies returns what it returned before the call.
C26_VisualizeIsPureRead ==
    ret.status = "ok" =>
        /\ data = before
        /\ \A p \in ToSet(TreePaths) :
              get_file_dependencies(disk, data, file, p).ret
                  = get_file_dependencies(disk, before, file, p).ret

(***************************************************************************)
(* DataManager (file_rank_mcp.py): the group store                         *)
(*                                                                         *)
(* self.data is {"groups": [...]}, a list of groups in the order they were *)
(* created; a group is {"name", "path", "files"} and a file of a group is  *)
(* {"path", "priority", "summary"}.  The variable `data` is self.data and  *)
(* `file` the content of the data file, which save_data writes in full.    *)
(***************************************************************************)

GroupFile(path, priority, summary) ==
    [path |-> path, priority |-> priority, summary |-> summary]

\* load_data when the data file does not exist
EmptyGroups == [groups |-> <<>>]

\* next((g for g in self.data["groups"] if g["name"] == group_name), None):
\* the position of the first group of that name, 0 for None
FindGroup(groups, group_name) ==
    LET hits == {i \in 1..Len(groups) : groups[i].name = group_name}
    IN  IF hits = {} THEN 0 ELSE CHOOSE i \in hits : \A j \in hits : i <= j

\* Sensitivity of C27: the file appended without the search for its path
AlwaysAppended(files, file_path, priority, summary) ==
    Append(files, GroupFile(file_path, priority,
                            IF summary = None THEN <<"No summary provided">> ELSE summary))

\* The for/else of add_file over group["files"]: the first entry with the
\* path gets the priority, or a new entry is appended
AddedOrUpdated(files, file_path, priority, summary) ==
    LET hits == {i \in 1..Len(files) : files[i].path = file_path}
    IN  IF hits # {}
        THEN [files EXCEPT ![CHOOSE i \in hits : \A j \in hits : i <= j].priority = priority]
        ELSE Append(files, GroupFile(file_path, priority,
                                     IF summary = None THEN <<"No summary provided">>
                                     ELSE summary))

add_file(d, f, group_name, file_path, priority, summary) ==
    LET groups == IF FindGroup(d.groups, group_name) = 0
                  THEN Append(d.groups, [name |-> group_name, path |-> Dirname(file_path),
                                         files |-> <<>>])
                  ELSE d.groups
        g == FindGroup(groups, group_name)
        d2 == [groups |-> [groups EXCEPT
                             ![g].files = AddedOrUpdated(@, file_path, priority, summary)]]
    IN  Outcome(d2, d2, [status |-> "success"])

\* group["files"] is rebound to the filtered list before the count is
\* compared, also when nothing was removed
remove_file(d, f, group_name, file_path) ==
    LET g == FindGroup(d.groups, group_name)
        kept == SelectSeq(d.groups[g].files, LAMBDA x : x.path # file_path)
        d2 == [groups |-> [d.groups EXCEPT ![g].files = kept]]
    IN  IF g = 0
        THEN Outcome(d, f, [status |-> "error", why |-> "group not found"])
        ELSE IF Len(kept) = Len(d.groups[g].files)
        THEN Outcome(d2, f, [status |-> "error", why |-> "file not found"])
        ELSE Outcome(d2, d2, [status |-> "success"])

remove_group(d, f, group_name) ==
    LET d2 == [groups |-> SelectSeq(d.groups, LAMBDA x : x.name # group_name)]
    IN  IF Len(d2.groups) = Len(d.groups)
        THEN Outcome(d2, f, [status |-> "error", why |-> "group not found"])
        ELSE Outcome(d2, d2, [status |-> "success"])

set_group_path(d, f, group_name, path) ==
    LET g == FindGroup(d.groups, group_name)
        d2 == [groups |-> [d.groups EXCEPT ![g].path = path]]
    IN  IF g = 0
        THEN Outcome(d, f, [status |-> "error", why |-> "group not found"])
        ELSE Outcome(d2, d2, [status |-> "success"])

\* The number of tool calls in one run
MaxGroupSteps == 4

\* The arguments the tools are called with
GroupNames == {"core", "docs"}
GroupFilePaths == {APy, BPy}
GroupPaths == {Cwd, YDir}
Priorities == {1, 2}

InitGroups ==
    /\ world = "py"
    /\ disk = World(world)
    /\ data = EmptyGroups
    /\ file = NoFile
    /\ call = [op |-> "__init__"]
    /\ ret = [status |-> "ok"]
    /\ steps = 0
    /\ exit_requested = FALSE
    /\ loop = NoLoop
    /\ writers = NoWriters
    /\ before = EmptyGroups
    /\ tree = NoTree

\* A tool was called and has returned
ToolReturns(c, out) ==
    /\ steps < MaxGroupSteps
    /\ steps' = steps + 1
    /\ call' = c
    /\ before' = data
    /\ data' = out.data
    /\ file' = out.file
    /\ ret' = out.ret
    /\ UNCHANGED <<world, disk, tree, exit_requested, loop, writers>>

AddFile ==
    \E g \in GroupNames, p \in GroupFilePaths, priority \in Priorities :
        ToolReturns([op |-> "add_file", group |-> g, file |-> p, priority |-> priority],
                    add_file(data, file, g, p, priority, None))

RemoveFile ==
    \E g \in GroupNames, p \in GroupFilePaths :
        ToolReturns([op |-> "remove_file", group |-> g, file |-> p],
                    remove_file(data, file, g, p))

RemoveGroup ==
    \E g \in GroupNames :
        ToolReturns([op |-> "remove_group", group |-> g], remove_group(data, file, g))

SetGroupPath ==
    \E g \in GroupNames, p \in GroupPaths :
        ToolReturns([op |-> "set_group_path", group |-> g, path |-> p],
                    set_group_path(data, file, g, p))

NextGroups ==
    \/ AddFile
    \/ RemoveFile
    \/ RemoveGroup
    \/ SetGroupPath

SpecGroups == InitGroups /\ [][NextGroups]_vars

\* C27: no two groups have the same name and no group holds two entries of
\* the same path; add_file on a path that the group holds changes the
\* priority of that entry and adds none; a remove_file or remove_group that
\* returns an error leaves the store and the data file as they were.
C27_GroupsHoldNoDuplicates ==
    /\ \A i, j \in 1..Len(data.groups) :
          data.groups[i].name = data.groups[j].name => i = j
    /\ \A i \in 1..Len(data.groups) :
          NoDuplicates([k \in 1..Len(data.groups[i].files) |-> data.groups[i].files[k].path])
    /\ \A i \in 1..Len(data.groups) :
          \A k \in 1..Len(data.groups[i].files), priority \in Priorities :
              LET out == add_file(data, file, data.groups[i].name,
                                  data.groups[i].files[k].path, priority, None)
              IN  /\ out.data.groups
                        = [data.groups EXCEPT ![i].files[k].priority = priority]
                  /\ out.file = out.data
    /\ \A g \in GroupNames, p \in GroupFilePaths :
          remove_file(data, file, g, p).ret.status = "error" =>
              /\ remove_file(data, file, g, p).data = data
              /\ remove_file(data, file, g, p).file = file
    /\ \A g \in GroupNames :
          remove_group(data, file, g).ret.status = "error" =>
              /\ remove_group(data, file, g).data = data
              /\ remove_group(data, file, g).file = file

\* add_file has returned for a path that the group held, second in a group
\* of two files, with a new priority: the group still holds two files
C27_Witness ==
    /\ call.op = "add_file"
    /\ Len(before.groups) = 1
    /\ Len(before.groups[1].files) = 2
    /\ before.groups[1].files[2].path = call.file
    /\ before.groups[1].files[2].priority # call.priority
    /\ Len(data.groups[1].files) = 2
    /\ data.groups[1].files[2].priority = call.priority

(***************************************************************************)
(* The command loop                                                        *)
(***************************************************************************)

\* C29: for every command that is a JSON object with an "id", the response
\* of process_command, if there is one, carries that id: for a result, for
\* an error of a missing parameter or an unknown action, and when handling
\* the command raises an exception.
C29_ResponseCarriesRequestId ==
    \A command \in Commands :
        IF command.json = "object"
        THEN "id" \in DOMAIN command.data =>
                LET response == process_command(disk, data, file, exit_requested,
                                                command).ret
                IN  response # NoResponse => response.id = IdOf(command.data)
        ELSE TRUE

\* The line processed last is a request of the given action
LastProcessed(action) ==
    IF call.op = "process_command"
    THEN (IF call.command.json = "object"
          THEN ActionOf(call.command.data) = action
          ELSE FALSE)
    ELSE FALSE

\* The response printed last is the response to the line processed last
LastAnswered ==
    /\ ret # NoResponse
    /\ loop.stdout # <<>>
    /\ loop.stdout[Len(loop.stdout)] = ret

\* C30: when an "exit" request has been processed, its result was printed
\* and the loop is left, and no line is processed after it (the loop is left
\* only then, and the line processed last is then that request); when a
\* "shutdown" request has been processed, its result was printed and the
\* loop goes on.
C30_ExitStopsTheLoop ==
    /\ LastProcessed("exit") => (loop.left /\ LastAnswered /\ ret.kind = "result")
    /\ loop.left => LastProcessed("exit")
    /\ loop.left <=> exit_requested
    /\ LastProcessed("shutdown") => (~loop.left /\ LastAnswered /\ ret.kind = "result")
    /\ Len(loop.stdout) <= steps

\* A "shutdown" request was answered and the loop went on to an "exit"
\* request, which was answered and has ended the loop: two lines printed
C30_Witness ==
    /\ LastProcessed("exit")
    /\ loop.left
    /\ Len(loop.stdout) = 2
    /\ loop.stdout[1].kind = "result"
    /\ loop.stdout[1].result = [status |-> "empty"]
    /\ steps = 2

(***************************************************************************)
(* The dependency records                                                  *)
(***************************************************************************)

\* C28: no record's imports list and no record's possible_imports list holds
\* an entry twice, so that the one list.remove of delete_file leaves no
\* occurrence of the deleted path in any record.
C28_RecordListsHoldNoDuplicates ==
    /\ \A p \in DOMAIN data.dependencies.val :
          /\ NoDuplicates(data.dependencies.val[p].imports)
          /\ NoDuplicates(data.dependencies.val[p].possible_imports)
    /\ \A p \in DOMAIN data.files.val :
          \A q \in DOMAIN delete_file(data, file, p).data.dependencies.val :
              ~Contains(delete_file(data, file, p).data.dependencies.val[q].imports, p)

\* delete_file has removed a tracked path from the imports of a record that
\* listed it beside another path
C28_Witness ==
    /\ call.op = "delete_file"
    /\ ret.status = "success"
    /\ \E q \in DOMAIN data.dependencies.val :
          /\ q \in DOMAIN before.dependencies.val
          /\ Contains(before.dependencies.val[q].imports, call.file_path)
          /\ Len(before.dependencies.val[q].imports) = 2
          /\ Len(data.dependencies.val[q].imports) = 1

(***************************************************************************)
(* Several processes on one data file                                      *)
(*                                                                         *)
(* Each command of example_simple.py is run by a process of its own: the   *)
(* process constructs a FileRankManager, which loads the data file into    *)
(* its own self.data, runs rank_file, which saves, and ends.  The program  *)
(* takes no lock.  The host either runs each process's section from the    *)
(* load to the end of the command under one exclusive lock, or it lets the *)
(* sections overlap.                                                       *)
(***************************************************************************)

\* The processes, and the file each of them ranks
Writers == {1, 2, 3}
PathOf(w) == CASE w = 1 -> APy [] w = 2 -> BPy [] w = 3 -> BadPy

\* The ranks the processes send: a valid one and one out of range
WriterRanks == {PyInt(1), PyInt(0)}

\* A process that has not started
NotStarted == [pc |-> "idle", data |-> EmptyData, ret |-> [status |-> "none"], rank |-> PyInt(0)]

InitWriters ==
    /\ world = "py"
    /\ disk = World(world)
    /\ data = EmptyData
    /\ file = NoFile
    /\ call = [op |-> "__init__"]
    /\ ret = [status |-> "ok"]
    /\ steps = 0
    /\ exit_requested = FALSE
    /\ loop = NoLoop
    /\ \E locked \in BOOLEAN :
          writers = [locked |-> locked, proc |-> [w \in Writers |-> NotStarted]]
    /\ before = EmptyData
    /\ tree = NoTree

\* Process w starts: FileRankManager() loads the data file.  Under the
\* host's lock it starts only when no other process is between its load and
\* the end of its command.
Construct(w) ==
    /\ writers.proc[w].pc = "idle"
    /\ writers.locked => \A v \in Writers : writers.proc[v].pc # "loaded"
    /\ writers' = [writers EXCEPT !.proc[w].pc = "loaded",
                                  !.proc[w].data = load_data(file)]
    /\ call' = [op |-> "__init__", writer |-> w]
    /\ steps' = steps + 1
    /\ UNCHANGED <<world, disk, data, file, ret, before, tree, exit_requested, loop>>

\* Process w runs rank_file on its own self.data, which saves to the shared
\* data file, and ends
WriterRankFile(w) ==
    /\ writers.proc[w].pc = "loaded"
    /\ \E r \in WriterRanks :
          LET out == rank_file(disk, writers.proc[w].data, file, PathOf(w), r, None)
          IN  /\ writers' = [writers EXCEPT !.proc[w] =
                                [pc |-> "done", data |-> out.data, ret |-> out.ret,
                                 rank |-> r]]
              /\ file' = out.file
              /\ ret' = out.ret
              /\ call' = [op |-> "rank_file", writer |-> w, file_path |-> PathOf(w),
                          rank |-> r]
    /\ steps' = steps + 1
    /\ UNCHANGED <<world, disk, data, before, tree, exit_requested, loop>>

NextWriters == \E w \in Writers : Construct(w) \/ WriterRankFile(w)

SpecWriters == InitWriters /\ [][NextWriters]_vars

\* The data file holds what the rank_file of process w stored
Persisted(w) ==
    /\ Has(load_data(file).files, PathOf(w))
    /\ load_data(file).files.val[PathOf(w)].rank = writers.proc[w].rank

\* C25: when the processes run their load, mutate, save sequences under one
\* exclusive lock, the data file holds, at every moment, what every process
\* that has ended with a successful rank_file has stored: no update is lost,
\* whatever the order of the processes.
C25_NoLostUpdateUnderLock ==
    writers.locked =>
        \A w \in Writers :
            (writers.proc[w].pc = "done" /\ writers.proc[w].ret.status = "success")
                => Persisted(w)

\* Under the lock the three processes have ended, one of them with an error
\* and the others with success: the data file holds the two rankings
C25_Witness ==
    /\ writers.locked
    /\ \A w \in Writers : writers.proc[w].pc = "done"
    /\ Cardinality({w \in Writers : writers.proc[w].ret.status = "success"}) = 2
    /\ Len(file.files.keys) = 2
    /\ \A w \in Writers : writers.proc[w].ret.status = "success" => Persisted(w)

====
